---- MODULE Spec2Model ----
(***************************************************************************)
(* Model of the BlackRoad agent control plane: the Task Scheduler          *)
(* (src/src/agents/task-queue.ts) and the Remediation Engine               *)
(* (src/src/agents/self-healer.ts).                                        *)
(*                                                                         *)
(* A handler that awaits a call into another component is modelled as two  *)
(* steps, one up to the await and one from its return; everything between  *)
(* two awaits is one atomic step.                                          *)
(***************************************************************************)
EXTENDS Integers, Sequences, FiniteSets, TLC

VARIABLES
    tasks,          \* queueState.tasks: Map in insertion order; the id is the index
    processing,     \* queueState.processing: Set of task ids
    stats,          \* queueState.stats
    alarm,          \* the scheduler's single wake-up deadline (storage.setAlarm)
    executing,      \* ids of tasks whose handler (executeTask) is being awaited
    hist,           \* per task: every value assigned to task.status, in order
    reports,        \* number of status reports (PATCH /task/{id}) received so far
    lastProcess,    \* what the last handleProcessNext returned
    now,            \* Date.now()
    actions,        \* healerState.actions: Map in insertion order; the id is the index
    healCount,      \* healerState.healCount
    consecutiveFailures, \* healerState.consecutiveFailures
    circuitOpen,    \* healerState.circuitOpen
    circuitOpenedAt,\* healerState.circuitOpenedAt
    calls,          \* manualTrigger / autoHeal requests awaiting a dispatch
    dispatched,     \* number of calls sent to the Task Scheduler, Coordinator and KV
    lastResponse,   \* the response of the last manualTrigger / autoHeal request
    agents,         \* coordinatorState.agents: the registry, by agent name
    lastHealthCheck,\* coordinatorState.lastHealthCheck
    forwards,       \* triggerAgent requests awaiting the triggered component
    healthCalls,    \* healthCheck requests awaiting autoHeal
    lastHealth,     \* the response of the last healthCheck request
    coordResponse,  \* the response of the last getAgent / triggerAgent / statusUpdate
    coordCount,     \* numbers of requests the Coordinator has received, by kind
    agg,            \* GET /api/health: the counts aggregated and the answer
    chain,          \* the request in progress: the stack of handlers awaiting a call
    autoHealBody,   \* body.health of the autoHeal requests, where one report is fixed
    stored          \* storage key 'queueState': what persistState last wrote

qvars == <<tasks, processing, stats, alarm, executing, hist, reports, lastProcess,
           stored>>
hvars == <<actions, healCount, consecutiveFailures, circuitOpen, circuitOpenedAt,
           calls, dispatched, lastResponse>>
cvars == <<agents, lastHealthCheck, forwards, healthCalls, lastHealth, coordResponse,
           coordCount>>
vars == <<tasks, processing, stats, alarm, executing, hist, reports, lastProcess, now,
          stored,
          actions, healCount, consecutiveFailures, circuitOpen, circuitOpenedAt,
          calls, dispatched, lastResponse,
          agents, lastHealthCheck, forwards, healthCalls, lastHealth, coordResponse,
          coordCount, agg, chain, autoHealBody>>

----------------------------------------------------------------------------
(* Bounds of the model *)

MaxTasks == 2
MaxReports == 1
MaxTicks == 1
MaxActions == 6
MaxCalls == 1
MaxHealerTicks == 2
MaxHeals == 2
MaxUpdates == 2
MaxTriggers == 1
MaxHealthChecks == 1
MaxCoordTicks == 1
MaxCount == 4
MaxDepth == 6
MaxPlanActions == 2
MaxChecks == 2
MaxAgentsReported == 1

(* Program constants *)

DefaultPriority == 5
MaxRetryAttempts == 5
FallbackMaxRetries == 5
RetryBackoffMs == 2000
CircuitThreshold == 5
CircuitResetMs == 60000
SelfHealEnabled == TRUE
InactivityWindowMs == 300000

(* the steps of the clock: the first backoff delay of the scheduler, the reset
   window of the breaker, just over the inactivity window of the Coordinator *)
QueueTickMs == RetryBackoffMs * 2
HealerTickMs == CircuitResetMs
CoordTickMs == InactivityWindowMs + 1

(* an absent value (undefined, null) is the empty sequence; a present one <<v>> *)
NONE == <<>>
Some(v) == <<v>>

(* Request bodies explored: the priority and maxRetries of POST /enqueue, and
   the status of PATCH /task/{id} *)
PriorityInputs == {NONE, Some(0), Some(1)}
MaxRetriesInputs == {NONE, Some(0), Some(1), Some(2)}
PatchedMaxRetries == {0, 1, 2}
UpdateStatuses == {"completed", "failed", "running"}

(* Strings whose content the code inspects are sequences of characters *)
Str_kv == <<"k", "v">>
Str_d1 == <<"d", "1">>
Str_agent == <<"a", "g", "e", "n", "t">>
Str_agentDash == <<"a", "g", "e", "n", "t", "-">>
Str_kvCache == <<"k", "v", "-", "c", "a", "c", "h", "e">>
Str_d1Database == <<"d", "1", "-", "d", "a", "t", "a", "b", "a", "s", "e">>
Str_r2Storage == <<"r", "2", "-", "s", "t", "o", "r", "a", "g", "e">>
Str_kvNamespace == <<"k", "v", "-", "n", "a", "m", "e", "s", "p", "a", "c", "e">>
Str_taskQueue == <<"t", "a", "s", "k", "-", "q", "u", "e", "u", "e">>
Str_agentTaskQueue == Str_agentDash \o Str_taskQueue
Str_coordinator == <<"c", "o", "o", "r", "d", "i", "n", "a", "t", "o", "r">>
Str_repoScraper == <<"r", "e", "p", "o", "-", "s", "c", "r", "a", "p", "e", "r">>
Str_selfHealer == <<"s", "e", "l", "f", "-", "h", "e", "a", "l", "e", "r">>
Str_syncManager == <<"s", "y", "n", "c", "-", "m", "a", "n", "a", "g", "e", "r">>
Str_ghost == <<"g", "h", "o", "s", "t">>

(* Request bodies explored by POST /trigger and POST /auto-heal *)
ManualKinds == {"restart", "scale"}
ManualTargets == {Str_taskQueue}
Snapshots ==
    {[checks |-> <<[name |-> Str_kvCache, status |-> "fail"],
                   [name |-> Str_r2Storage, status |-> "pass"],
                   [name |-> Str_agentTaskQueue, status |-> "fail"]>>,
      agents |-> <<[name |-> Str_taskQueue, status |-> "error"]>>],
     [checks |-> <<[name |-> Str_r2Storage, status |-> "fail"]>>,
      agents |-> <<>>]}
DispatchOutcomes == {"ok", "rejected", "fail", "fail-second"}

(* The health reports given to autoHeal alone: every sequence of up to
   MaxChecks checks and MaxAgentsReported agents over the names healthCheck
   produces, one name that holds both "d1" and "kv", and every check status *)
Str_d1Kv == Str_d1 \o <<"-">> \o Str_kv
CheckNames == {Str_kvCache, Str_d1Database, Str_r2Storage, Str_agentTaskQueue, Str_d1Kv}
CheckStatus == {"pass", "warn", "fail"}
SeqsUpTo(S, n) == UNION {[1..k -> S] : k \in 0..n}
HealthInputs ==
    [checks : SeqsUpTo([name : CheckNames, status : CheckStatus], MaxChecks),
     agents : SeqsUpTo([name : {Str_taskQueue}, status : {"active", "error"}],
                       MaxAgentsReported)]

(* TaskStatus *)
TaskStatus == {"pending", "queued", "running", "completed", "failed",
               "retrying", "cancelled"}

----------------------------------------------------------------------------
(* Helpers *)

TaskIds == 1..Len(tasks)

RECURSIVE Pow2(_)
Pow2(n) == IF n = 0 THEN 1 ELSE 2 * Pow2(n - 1)

(* a || b on numbers: b when a is undefined or 0 *)
OrElse(a, b) == IF a = NONE \/ a[1] = 0 THEN b ELSE a[1]

(* InsertByPriority with a sort that is not stable: an equal priority goes first *)
RECURSIVE InsertByPriorityUnstable(_, _)
InsertByPriorityUnstable(id, s) ==
    IF s = <<>> THEN <<id>>
    ELSE IF tasks[Head(s)].priority < tasks[id].priority
         THEN <<Head(s)>> \o InsertByPriorityUnstable(id, Tail(s))
         ELSE <<id>> \o s

(* insertion of id into a list sorted by priority, after every element whose
   priority is not larger: Array.prototype.sort is stable *)
RECURSIVE InsertByPriority(_, _)
InsertByPriority(id, s) ==
    IF s = <<>> THEN <<id>>
    ELSE IF tasks[Head(s)].priority <= tasks[id].priority
         THEN <<Head(s)>> \o InsertByPriority(id, Tail(s))
         ELSE <<id>> \o s

RECURSIVE SortByPriority(_)
SortByPriority(s) ==
    IF s = <<>> THEN <<>>
    ELSE InsertByPriority(s[Len(s)], SortByPriority(SubSeq(s, 1, Len(s) - 1)))

IsSchedulable(i) == tasks[i].status = "pending" \/ tasks[i].status = "retrying"

(* Array.prototype.filter over the Map's values, in insertion order *)
RECURSIVE SchedulableFrom(_)
SchedulableFrom(i) ==
    IF i > Len(tasks) THEN <<>>
    ELSE (IF IsSchedulable(i) THEN <<i>> ELSE <<>>) \o SchedulableFrom(i + 1)

(* pendingTasks of handleProcessNext *)
PendingTasks == SortByPriority(SchedulableFrom(1))

(* the status history of task id extended by the statuses ss, if it is traced *)
Record(id, ss) ==
    IF id \in DOMAIN hist THEN [hist EXCEPT ![id] = @ \o ss] ELSE hist

CountStatus(s) == Cardinality({i \in TaskIds : tasks[i].status = s})

----------------------------------------------------------------------------
(* Task Scheduler *)

(* NewTask with the status 'queued' of TaskStatus instead of 'pending' *)
NewTaskQueued(p, m) ==
    [status |-> "queued",
     priority |-> OrElse(p, DefaultPriority),
     type |-> "health_check",
     retryCount |-> 0,
     maxRetries |-> OrElse(m, OrElse(Some(MaxRetryAttempts), FallbackMaxRetries)),
     hasResult |-> FALSE,
     hasError |-> FALSE,
     completedAtSet |-> FALSE]

NewTask(p, m) ==
    [status |-> "pending",
     priority |-> OrElse(p, DefaultPriority),
     type |-> "health_check",
     retryCount |-> 0,
     maxRetries |-> OrElse(m, OrElse(Some(MaxRetryAttempts), FallbackMaxRetries)),
     hasResult |-> FALSE,
     hasError |-> FALSE,
     completedAtSet |-> FALSE]

(* persistState: the in-memory state as it is when the handler ends *)
PersistState ==
    stored' = [tasks |-> tasks', processing |-> processing', stats |-> stats']

(* handleEnqueue *)
Enqueue(p, m, traced) ==
    /\ Len(tasks) < MaxTasks
    /\ tasks' = Append(tasks, NewTask(p, m))
    /\ hist' = IF traced THEN Append(hist, <<"pending">>) ELSE hist
    /\ stats' = [stats EXCEPT !.totalEnqueued = @ + 1]
    /\ UNCHANGED <<processing, alarm, executing, reports, lastProcess, now>>
    /\ PersistState
    /\ UNCHANGED <<hvars, cvars, agg, autoHealBody, chain>>

(* RetriesRemain with <= for < *)
RetriesRemainInclusive(t) == t.retryCount <= t.maxRetries

(* RetriesRemain that never grants a retry *)
RetriesRemainNever(t) == t.retryCount < 0

(* RetriesRemain that stops one retry early *)
RetriesRemainOffByOne(t) == t.retryCount + 1 < t.maxRetries

(* the retry branch shared by the three failure paths: whether retries remain *)
RetriesRemain(t) == t.retryCount < t.maxRetries

(* Backoff with the exponent taken before the increment of retryCount *)
BackoffBeforeIncrement(retryCount) == RetryBackoffMs * Pow2(retryCount - 1)

(* backoffMs of handleUpdateTask, from the retryCount already incremented *)
Backoff(retryCount) == RetryBackoffMs * Pow2(retryCount)

(* handleUpdateTask, for a body {status, error?} *)
UpdateTask(id, st) ==
    /\ reports < MaxReports
    /\ reports' = reports + 1
    /\ IF id \notin TaskIds
       THEN UNCHANGED <<tasks, processing, stats, alarm, hist>>
       ELSE LET t == [tasks[id] EXCEPT !.status = st,
                                       !.hasError = @ \/ (st = "failed")]
            IN  CASE st = "completed" ->
                      /\ tasks' = [tasks EXCEPT ![id] =
                                      [t EXCEPT !.completedAtSet = TRUE]]
                      /\ hist' = Record(id, <<st>>)
                      /\ processing' = processing \ {id}
                      /\ stats' = [stats EXCEPT !.totalCompleted = @ + 1]
                      /\ UNCHANGED alarm
                 [] st = "failed" ->
                      /\ processing' = processing \ {id}
                      /\ IF RetriesRemain(t)
                         THEN /\ tasks' = [tasks EXCEPT ![id] =
                                     [t EXCEPT !.status = "retrying",
                                               !.retryCount = @ + 1]]
                              /\ hist' = Record(id, <<st, "retrying">>)
                              /\ stats' = [stats EXCEPT !.totalFailed = @ + 1,
                                                        !.totalRetried = @ + 1]
                              /\ alarm' = Some(now + Backoff(t.retryCount + 1))
                         ELSE /\ tasks' = [tasks EXCEPT ![id] = t]
                              /\ hist' = Record(id, <<st>>)
                              /\ stats' = [stats EXCEPT !.totalFailed = @ + 1]
                              /\ UNCHANGED alarm
                 [] st = "running" ->
                      /\ tasks' = [tasks EXCEPT ![id] = t]
                      /\ hist' = Record(id, <<st>>)
                      /\ processing' = processing \cup {id}
                      /\ UNCHANGED <<stats, alarm>>
                 [] OTHER ->
                      /\ tasks' = [tasks EXCEPT ![id] = t]
                      /\ hist' = Record(id, <<st>>)
                      /\ UNCHANGED <<processing, stats, alarm>>
    /\ IF id \in TaskIds THEN PersistState ELSE UNCHANGED stored
    /\ UNCHANGED <<executing, lastProcess, now>>
    /\ UNCHANGED <<hvars, cvars, agg, autoHealBody, chain>>

(* handleUpdateTask, for a body {maxRetries}: Object.assign merges the field;
   no status branch is taken *)
UpdateFields(id, m) ==
    /\ tasks' = IF id \in TaskIds THEN [tasks EXCEPT ![id].maxRetries = m] ELSE tasks
    /\ UNCHANGED <<processing, stats, alarm, executing, hist, reports, lastProcess, now>>
    /\ IF id \in TaskIds THEN PersistState ELSE UNCHANGED stored
    /\ UNCHANGED <<hvars, cvars, agg, autoHealBody, chain>>

(* handleStatus: a read of the queue state, no assignment *)
StatusResponse ==
    [pending |-> Cardinality({i \in TaskIds : tasks[i].status = "pending"}),
     running |-> Cardinality(processing),
     failed  |-> Cardinality({i \in TaskIds : tasks[i].status = "failed"}),
     total   |-> Len(tasks),
     stats   |-> stats,
     processingIds |-> processing]

(* ProcessNextBegin that marks the task running without adding it to the
   in-flight set *)
ProcessNextBeginNotInFlight ==
    IF PendingTasks = <<>>
    THEN /\ lastProcess' = [processed |-> FALSE]
         /\ UNCHANGED <<tasks, processing, executing, hist>>
    ELSE LET id == Head(PendingTasks)
         IN  /\ tasks' = [tasks EXCEPT ![id].status = "running"]
             /\ hist' = Record(id, <<"running">>)
             /\ processing' = processing
             /\ executing' = executing \cup {id}
             /\ UNCHANGED lastProcess

(* handleProcessNext up to `await this.executeTask(task)` *)
ProcessNextBegin ==
    IF PendingTasks = <<>>
    THEN /\ lastProcess' = [processed |-> FALSE]
         /\ UNCHANGED <<tasks, processing, executing, hist>>
    ELSE LET id == Head(PendingTasks)
         IN  /\ tasks' = [tasks EXCEPT ![id].status = "running"]
             /\ hist' = Record(id, <<"running">>)
             /\ processing' = processing \cup {id}
             /\ executing' = executing \cup {id}
             /\ UNCHANGED lastProcess

(* POST /process and POST /trigger *)
ProcessNext ==
    /\ ProcessNextBegin
    /\ UNCHANGED <<stats, alarm, reports, now, stored>>
    /\ UNCHANGED <<hvars, cvars, agg, autoHealBody, chain>>

(* handleProcessNext from the return of executeTask: ok, or the handler threw *)
ProcessNextReturn(id, ok) ==
    /\ id \in executing
    /\ executing' = executing \ {id}
    /\ processing' = processing \ {id}
    /\ lastProcess' = [processed |-> TRUE, task |-> id]
    /\ IF ok
       THEN /\ tasks' = [tasks EXCEPT ![id].status = "completed",
                                      ![id].hasResult = TRUE,
                                      ![id].completedAtSet = TRUE]
            /\ hist' = Record(id, <<"completed">>)
            /\ stats' = [stats EXCEPT !.totalCompleted = @ + 1]
       ELSE IF RetriesRemain(tasks[id])
            THEN /\ tasks' = [tasks EXCEPT ![id].status = "retrying",
                                           ![id].hasError = TRUE,
                                           ![id].retryCount = @ + 1]
                 /\ hist' = Record(id, <<"failed", "retrying">>)
                 /\ stats' = [stats EXCEPT !.totalRetried = @ + 1]
            ELSE /\ tasks' = [tasks EXCEPT ![id].status = "failed",
                                           ![id].hasError = TRUE]
                 /\ hist' = Record(id, <<"failed">>)
                 /\ stats' = [stats EXCEPT !.totalFailed = @ + 1]
    /\ PersistState
    /\ UNCHANGED <<alarm, reports, now>>
    /\ UNCHANGED <<hvars, cvars, agg, autoHealBody, chain>>

(* IsRetryable that takes every failed task, exhausted or not *)
IsRetryableAnyFailed(i) == tasks[i].status = "failed"

(* the filter of handleRetryFailed *)
IsRetryable(i) == tasks[i].status = "failed" /\ RetriesRemain(tasks[i])

(* handleRetryFailed, on the state of the Task Scheduler *)
HandleRetryFailed ==
    /\ tasks' = [i \in TaskIds |->
                    IF IsRetryable(i)
                    THEN [tasks[i] EXCEPT !.status = "retrying", !.retryCount = @ + 1]
                    ELSE tasks[i]]
    /\ hist' = [i \in DOMAIN hist |->
                    IF IsRetryable(i) THEN Append(hist[i], "retrying") ELSE hist[i]]
    /\ stats' = [stats EXCEPT !.totalRetried =
                    @ + Cardinality({i \in TaskIds : IsRetryable(i)})]

(* POST /retry-failed, the other components left alone *)
RetryFailed ==
    /\ HandleRetryFailed
    /\ UNCHANGED <<processing, alarm, executing, reports, lastProcess, now>>
    /\ PersistState
    /\ UNCHANGED <<hvars, cvars, agg, autoHealBody, chain>>

(* alarm(): the wake-up, delivered once the deadline has passed *)
Alarm ==
    /\ alarm # NONE
    /\ now >= alarm[1]
    /\ alarm' = NONE
    /\ ProcessNextBegin
    /\ UNCHANGED <<stats, reports, now, stored>>
    /\ UNCHANGED <<hvars, cvars, agg, autoHealBody, chain>>

(* the clock advances *)
QueueTick ==
    /\ now + QueueTickMs <= MaxTicks * QueueTickMs
    /\ now' = now + QueueTickMs
    /\ UNCHANGED <<qvars, cvars, agg, autoHealBody, chain>>
    /\ UNCHANGED <<hvars, cvars, agg, autoHealBody, chain>>

----------------------------------------------------------------------------
(* Remediation Engine *)

(* String.prototype.includes *)
Includes(str, sub) ==
    \E k \in 0..(Len(str) - Len(sub)) : SubSeq(str, k + 1, k + Len(sub)) = sub

(* String.prototype.replace(sub, ''): the first occurrence of sub removed *)
RemoveFirst(str, sub) ==
    IF ~Includes(str, sub) THEN str
    ELSE LET k == CHOOSE k \in 0..(Len(str) - Len(sub)) :
                     /\ SubSeq(str, k + 1, k + Len(sub)) = sub
                     /\ \A j \in 0..(k - 1) : SubSeq(str, j + 1, j + Len(sub)) # sub
         IN  SubSeq(str, 1, k) \o SubSeq(str, k + Len(sub) + 1, Len(str))

(* determineHealAction: the action for a failing check, <<>> when there is none *)
DetermineHealAction(check) ==
    IF Includes(check.name, Str_kv)
    THEN <<[kind |-> "retry", target |-> Str_kvNamespace]>>
    ELSE IF Includes(check.name, Str_d1)
    THEN <<[kind |-> "alert", target |-> Str_d1Database]>>
    ELSE IF Includes(check.name, Str_agent)
    THEN <<[kind |-> "restart", target |-> RemoveFirst(check.name, Str_agentDash)]>>
    ELSE <<>>

(* the two loops of handleAutoHeal that fill actionsToTake *)
RECURSIVE FromChecks(_)
FromChecks(checks) ==
    IF checks = <<>> THEN <<>>
    ELSE (IF Head(checks).status = "fail" THEN DetermineHealAction(Head(checks))
          ELSE <<>>) \o FromChecks(Tail(checks))

RECURSIVE FromAgents(_)
FromAgents(list) ==
    IF list = <<>> THEN <<>>
    ELSE (IF Head(list).status = "error"
          THEN <<[kind |-> "restart", target |-> Head(list).name]>>
          ELSE <<>>) \o FromAgents(Tail(list))

(* ActionsToTake without the loop over the agents *)
ActionsToTakeChecksOnly(health) == FromChecks(health.checks)

(* ActionsToTake with the loop over the agents before the loop over the checks *)
ActionsToTakeAgentsFirst(health) == FromAgents(health.agents) \o FromChecks(health.checks)

(* actionsToTake once both loops of handleAutoHeal have run *)
ActionsToTake(health) == FromChecks(health.checks) \o FromAgents(health.agents)

(* whether the dispatch of a kind awaits a collaborator *)
Awaits(kind) == kind \in {"restart", "retry", "rollback", "alert"}

(* OpensAt with > for >= *)
OpensAbove(failures) == failures > CircuitThreshold

(* the catch branch of executeHealAction: the breaker after one more failure *)
OpensAt(failures) == failures >= CircuitThreshold

(* executeHealAction from its start to its first await: the action is recorded
   as executing; a kind with no dispatch completes at once *)
ExecuteBegin(a, op, rest) ==
    IF Awaits(a.kind)
    THEN /\ actions' = Append(actions,
                          [kind |-> a.kind, target |-> a.target, status |-> "executing"])
         /\ calls' = calls \cup {[op |-> op, action |-> Len(actions) + 1, rest |-> rest,
                                 results |-> <<>>]}
         /\ dispatched' = dispatched + 1
         /\ UNCHANGED <<consecutiveFailures, circuitOpen, circuitOpenedAt>>
    ELSE /\ actions' = Append(actions,
                          [kind |-> a.kind, target |-> a.target, status |-> "completed"])
         /\ consecutiveFailures' = 0
         /\ UNCHANGED <<calls, dispatched, circuitOpen, circuitOpenedAt>>

(* the actions an in-flight autoHeal has still to create *)
RECURSIVE SumRest(_)
SumRest(cs) ==
    IF cs = {} THEN 0
    ELSE LET c == CHOOSE c \in cs : TRUE IN Len(c.rest) + SumRest(cs \ {c})

Room == MaxActions - Len(actions) - SumRest(calls)

(* the autoHeal requests counted or still to be counted in healCount *)
Heals == healCount + Cardinality({c \in calls : c.op = "autoHeal"})

(* ResetAt computed from the time of the request *)
ResetAtFromNow(openedAt) == now + CircuitResetMs

(* resetAt of the 503 response *)
ResetAt(openedAt) == openedAt + CircuitResetMs

(* handleManualTrigger *)
ManualTrigger(kind, target) ==
    /\ IF circuitOpen
       THEN /\ lastResponse' =
                   IF circuitOpenedAt = NONE THEN [status |-> 500]
                   ELSE [status |-> 503, resetAt |-> ResetAt(circuitOpenedAt[1])]
            /\ UNCHANGED <<actions, calls, dispatched, consecutiveFailures,
                           circuitOpen, circuitOpenedAt>>
       ELSE /\ Room >= 1
            /\ Awaits(kind) => Cardinality(calls) < MaxCalls
            /\ ExecuteBegin([kind |-> kind, target |-> target], "trigger", <<>>)
            /\ lastResponse' = IF Awaits(kind) THEN lastResponse
                               ELSE [status |-> 200, action |-> Len(actions) + 1]
    /\ UNCHANGED <<healCount, now>>
    /\ UNCHANGED <<qvars, cvars, agg, autoHealBody, chain>>

(* handleAutoHeal up to the first await, on the state of the Remediation
   Engine *)
HandleAutoHeal(health) ==
    /\ IF ~SelfHealEnabled
       THEN /\ lastResponse' = [healed |-> FALSE, reason |-> "disabled"]
            /\ UNCHANGED <<actions, calls, dispatched, consecutiveFailures,
                           circuitOpen, circuitOpenedAt, healCount>>
       ELSE IF circuitOpen
       THEN /\ lastResponse' = [healed |-> FALSE, reason |-> "circuit-open"]
            /\ UNCHANGED <<actions, calls, dispatched, consecutiveFailures,
                           circuitOpen, circuitOpenedAt, healCount>>
       ELSE LET todo == ActionsToTake(health)
            IN  IF todo = <<>>
                THEN /\ Heals < MaxHeals
                     /\ healCount' = healCount + 1
                     /\ lastResponse' = [healed |-> TRUE, actionsCount |-> 0, results |-> <<>>]
                     /\ UNCHANGED <<actions, calls, dispatched, consecutiveFailures,
                                    circuitOpen, circuitOpenedAt>>
                ELSE /\ Heals < MaxHeals
                     /\ Room >= Len(todo)
                     /\ Cardinality(calls) < MaxCalls
                     /\ ExecuteBegin(Head(todo), "autoHeal", Tail(todo))
                     /\ UNCHANGED <<healCount, lastResponse>>

(* POST /auto-heal, the other components left alone *)
AutoHeal(health) ==
    /\ HandleAutoHeal(health)
    /\ UNCHANGED now
    /\ UNCHANGED <<qvars, cvars, agg, autoHealBody, chain>>

(* whether the try block of executeHealAction ran to its end: an awaited
   fetch throws only when the call itself fails; a callee that answers with an
   error status ("rejected") returns a Response that nothing inspects *)
Succeeded(o) == o \in {"ok", "rejected"}

(* calls a dispatch has sent when it ends with outcome o: restart sends the
   enqueue and then the status report *)
CallsAfterFirst(kind, o) ==
    IF kind = "restart" /\ (Succeeded(o) \/ o = "fail-second") THEN 1 ELSE 0

(* FinalStatus that leaves an action whose dispatch failed as it was *)
FinalStatusKeepsExecuting(ok) == IF ok THEN "completed" ELSE "executing"

(* the status executeHealAction ends an action with: completed after the
   switch, failed in the catch *)
FinalStatus(ok) == IF ok THEN "completed" ELSE "failed"

(* executeHealAction from the return of its dispatch, and what the request
   does next: manualTrigger responds, autoHeal goes on with its next action;
   on the state of the Remediation Engine *)
ExecuteHealAction(c, o) ==
    /\ c \in calls
    /\ o = "fail-second" => actions[c.action].kind = "restart"
    /\ LET ok == Succeeded(o)
           failures == IF ok THEN 0 ELSE consecutiveFailures + 1
           done == [actions EXCEPT ![c.action].status = FinalStatus(ok)]
           results == Append(c.results,
                         [action |-> c.action, kind |-> done[c.action].kind,
                          target |-> done[c.action].target,
                          success |-> done[c.action].status = "completed"])
       IN  /\ consecutiveFailures' = failures
           /\ IF ~ok /\ OpensAt(failures)
              THEN circuitOpen' = TRUE /\ circuitOpenedAt' = Some(now)
              ELSE UNCHANGED <<circuitOpen, circuitOpenedAt>>
           /\ IF c.rest = <<>>
              THEN /\ actions' = done
                   /\ calls' = calls \ {c}
                   /\ dispatched' = dispatched + CallsAfterFirst(done[c.action].kind, o)
                   /\ IF c.op = "autoHeal"
                      THEN /\ healCount' = healCount + 1
                           /\ lastResponse' = [healed |-> TRUE,
                                              actionsCount |-> Len(c.results) + 1 + Len(c.rest),
                                              results |-> results]
                      ELSE /\ lastResponse' = [status |-> 200, action |-> c.action]
                           /\ UNCHANGED healCount
              ELSE /\ actions' = Append(done,
                          [kind |-> Head(c.rest).kind, target |-> Head(c.rest).target,
                           status |-> "executing"])
                   /\ calls' = (calls \ {c}) \cup
                          {[op |-> c.op, action |-> Len(actions) + 1, rest |-> Tail(c.rest),
                            results |-> results]}
                   /\ dispatched' = dispatched + CallsAfterFirst(done[c.action].kind, o) + 1
                   /\ UNCHANGED <<healCount, lastResponse>>

(* the return of a dispatch, the other components left alone *)
ExecuteReturn(c, o) ==
    /\ ExecuteHealAction(c, o)
    /\ UNCHANGED now
    /\ UNCHANGED <<qvars, cvars, agg, autoHealBody, chain>>

(* ResetDue with the comparison inverted *)
ResetDueInverted(elapsed) == elapsed < CircuitResetMs

(* the test of the lazy reset on the time elapsed since the breaker opened *)
ResetDue(elapsed) == elapsed > CircuitResetMs

(* handleStatus: the lazy reset of the breaker *)
HealerStatus ==
    /\ IF circuitOpen /\ circuitOpenedAt # NONE
       THEN IF ResetDue(now - circuitOpenedAt[1])
            THEN /\ circuitOpen' = FALSE
                 /\ circuitOpenedAt' = NONE
                 /\ consecutiveFailures' = 0
            ELSE UNCHANGED <<circuitOpen, circuitOpenedAt, consecutiveFailures>>
       ELSE UNCHANGED <<circuitOpen, circuitOpenedAt, consecutiveFailures>>
    /\ UNCHANGED <<actions, healCount, calls, dispatched, lastResponse, now>>
    /\ UNCHANGED <<qvars, cvars, agg, autoHealBody, chain>>

(* handleResetCircuit *)
ResetCircuit ==
    /\ circuitOpen' = FALSE
    /\ circuitOpenedAt' = NONE
    /\ consecutiveFailures' = 0
    /\ UNCHANGED <<actions, healCount, calls, dispatched, lastResponse, now>>
    /\ UNCHANGED <<qvars, cvars, agg, autoHealBody, chain>>

(* alarm() of the Remediation Engine, the periodic self-check: with the breaker
   closed it fetches the Coordinator's health and, when that is unhealthy,
   runs handleAutoHeal on it (which tests the breaker again) *)
SelfCheck(health, unhealthy) ==
    IF SelfHealEnabled /\ ~circuitOpen /\ unhealthy
    THEN AutoHeal(health)
    ELSE UNCHANGED vars

(* the clock advances *)
HealerTick ==
    /\ now + HealerTickMs <= MaxHealerTicks * HealerTickMs
    /\ now' = now + HealerTickMs
    /\ UNCHANGED <<qvars, cvars, agg, autoHealBody, chain>>
    /\ UNCHANGED <<hvars, cvars, agg, autoHealBody, chain>>

----------------------------------------------------------------------------
(* Coordinator *)

(* agentNames of initializeAgents, in the order of insertion into the Map *)
AgentOrder ==
    <<Str_coordinator, Str_repoScraper, Str_taskQueue, Str_selfHealer, Str_syncManager>>

AgentNames == {AgentOrder[i] : i \in DOMAIN AgentOrder}

(* Triggerable that routes every registered name, the Coordinator's own included *)
TriggerableWithCoordinator == AgentNames

(* the names the switch of handleTriggerAgent routes to a component *)
Triggerable == {Str_repoScraper, Str_taskQueue, Str_selfHealer, Str_syncManager}

(* AgentHealth['status'] *)
AgentStatus == {"active", "idle", "error", "recovering"}

(* Request parameters explored: the names and statuses of POST /status, the
   names of GET /agents/{name} and POST /agents/{name}/trigger, and the
   outcomes of the KV and D1 probes *)
UpdateNames == {Str_repoScraper, Str_taskQueue, Str_ghost}
GetNames == {Str_repoScraper, Str_ghost}
TriggerNames == {Str_repoScraper, Str_taskQueue, Str_coordinator, Str_ghost}
ProbeOutcomes == {"pass", "fail"}

(* AgentCheck that gives a warning, not a failure, for an agent in error *)
AgentCheckErrorWarns(name) ==
    LET agent == agents[name]
        agentInactive == now - agent.lastActivity > InactivityWindowMs
    IN  [name |-> Str_agentDash \o name,
         status |-> IF agent.status = "error" THEN "warn"
                    ELSE IF agentInactive /\ agent.status # "idle" THEN "warn"
                    ELSE "pass"]

(* the derived check of one agent in runHealthChecks *)
AgentCheck(name) ==
    LET agent == agents[name]
        agentInactive == now - agent.lastActivity > InactivityWindowMs
    IN  [name |-> Str_agentDash \o name,
         status |-> IF agent.status = "error" THEN "fail"
                    ELSE IF agentInactive /\ agent.status # "idle" THEN "warn"
                    ELSE "pass"]

(* runHealthChecks: the KV, D1 and R2 probes (R2 passes either way), then one
   check per agent *)
RunHealthChecks(kv, d1) ==
    <<[name |-> Str_kvCache, status |-> kv],
      [name |-> Str_d1Database, status |-> d1],
      [name |-> Str_r2Storage, status |-> "pass"]>>
    \o [i \in DOMAIN AgentOrder |-> AgentCheck(AgentOrder[i])]

(* checks.filter(c => c.status === st).length *)
CountChecks(checks, st) == Cardinality({i \in DOMAIN checks : checks[i].status = st})

(* agentHealthList.filter(a => a.status === 'error').length *)
ErrorAgents == Cardinality({n \in AgentNames : agents[n].status = "error"})

(* Overall that takes a single agent in error for unhealthy *)
OverallAnyError(failedChecks, warnChecks, errorAgents) ==
    IF failedChecks > 0 \/ errorAgents >= 1 THEN "unhealthy"
    ELSE IF warnChecks > 0 \/ errorAgents = 1 THEN "degraded"
    ELSE "healthy"

(* the aggregation of handleHealthCheck *)
Overall(failedChecks, warnChecks, errorAgents) ==
    IF failedChecks > 0 \/ errorAgents > 1 THEN "unhealthy"
    ELSE IF warnChecks > 0 \/ errorAgents = 1 THEN "degraded"
    ELSE "healthy"

(* the HTTP status GET /api/health answers with *)
StatusCode(overall) ==
    IF overall = "healthy" THEN 200 ELSE IF overall = "degraded" THEN 207 ELSE 503

(* agentHealthList as it is serialized: the agents in Map order *)
AgentList == [i \in DOMAIN AgentOrder |->
                 [name |-> AgentOrder[i], status |-> agents[AgentOrder[i]].status]]

(* handleGetAgent *)
GetAgent(name) ==
    /\ coordResponse' = IF name \in AgentNames THEN [status |-> 200, agent |-> name]
                        ELSE [status |-> 404]
    /\ UNCHANGED <<agents, lastHealthCheck, forwards, healthCalls, lastHealth,
                   coordCount, agg, autoHealBody, chain, now>>
    /\ UNCHANGED <<qvars, hvars>>

(* the registry after handleStatusUpdate has applied a report to a known agent *)
Reported(name, st) ==
    [agents EXCEPT ![name].status = st,
                   ![name].lastActivity = now,
                   ![name].errorCount = IF st = "error" THEN @ + 1 ELSE @]

(* handleStatusUpdate *)
StatusUpdate(name, st) ==
    /\ coordCount.updates < MaxUpdates
    /\ coordCount' = [coordCount EXCEPT !.updates = @ + 1]
    /\ IF name \notin AgentNames
       THEN /\ coordResponse' = [status |-> 404]
            /\ UNCHANGED agents
       ELSE /\ agents' = Reported(name, st)
            /\ coordResponse' = [status |-> 200, agent |-> name]
    /\ UNCHANGED <<lastHealthCheck, forwards, healthCalls, lastHealth, agg, autoHealBody, chain, now>>
    /\ UNCHANGED <<qvars, hvars>>

(* handleTriggerAgent up to `await doInstance.fetch(...)` *)
TriggerAgent(name) ==
    /\ IF name \notin AgentNames
       THEN /\ coordResponse' = [status |-> 404]
            /\ UNCHANGED <<forwards, coordCount>>
       ELSE IF name \notin Triggerable
       THEN /\ coordResponse' = [status |-> 400]
            /\ UNCHANGED <<forwards, coordCount>>
       ELSE /\ coordCount.triggers < MaxTriggers
            /\ coordCount' = [coordCount EXCEPT !.triggers = @ + 1]
            /\ forwards' = forwards \cup
                   {[id |-> coordCount.triggers + 1, name |-> name, notified |-> FALSE]}
            /\ UNCHANGED coordResponse
    /\ UNCHANGED <<agents, lastHealthCheck, healthCalls, lastHealth, agg, autoHealBody, chain, now>>
    /\ UNCHANGED <<qvars, hvars>>

(* handleScrapeAll of the triggered scraper reaching notifyCoordinator('idle'):
   a statusUpdate that enters the Coordinator while its triggerAgent is
   suspended *)
ScraperNotify(c) ==
    /\ c \in forwards
    /\ c.name = Str_repoScraper
    /\ ~c.notified
    /\ agents' = Reported(Str_repoScraper, "idle")
    /\ coordResponse' = [status |-> 200, agent |-> Str_repoScraper]
    /\ forwards' = (forwards \ {c}) \cup {[c EXCEPT !.notified = TRUE]}
    /\ UNCHANGED <<lastHealthCheck, healthCalls, lastHealth, coordCount, agg, autoHealBody, chain, now>>
    /\ UNCHANGED <<qvars, hvars>>

(* Triggered that adds to taskCount and leaves the status as it finds it *)
TriggeredKeepsStatus(name) ==
    [agents EXCEPT ![name].lastActivity = now,
                   ![name].taskCount = @ + 1]

(* the registry after handleTriggerAgent has updated the triggered agent *)
Triggered(name) ==
    [agents EXCEPT ![name].status = "active",
                   ![name].lastActivity = now,
                   ![name].taskCount = @ + 1]

(* handleTriggerAgent from the return of the forwarded call: the component
   answered (with whatever status), or the call was rejected and the handler
   threw into the catch of fetch *)
TriggerReturn(c, returned) ==
    /\ c \in forwards
    /\ (returned /\ c.name = Str_repoScraper) => c.notified
    /\ forwards' = forwards \ {c}
    /\ IF returned
       THEN /\ agents' = Triggered(c.name)
            /\ coordResponse' = [status |-> 200, triggered |-> c.name]
       ELSE /\ coordResponse' = [status |-> 500]
            /\ UNCHANGED agents
    /\ UNCHANGED <<lastHealthCheck, healthCalls, lastHealth, coordCount, agg, autoHealBody, chain, now>>
    /\ UNCHANGED <<qvars, hvars>>

(* handleHealthCheck up to `await this.triggerSelfHeal(health)`; the snapshot
   sent to autoHeal is serialized when the call is made *)
HealthCheckBegin(kv, d1) ==
    /\ coordCount.healths < MaxHealthChecks
    /\ coordCount' = [coordCount EXCEPT !.healths = @ + 1]
    /\ lastHealthCheck' = now
    /\ LET checks == RunHealthChecks(kv, d1)
           overall == Overall(CountChecks(checks, "fail"), CountChecks(checks, "warn"),
                              ErrorAgents)
       IN  IF overall = "unhealthy" /\ SelfHealEnabled
           THEN /\ healthCalls' = healthCalls \cup
                       {[id |-> coordCount.healths + 1, overall |-> overall,
                         checks |-> checks,
                         sent |-> [checks |-> checks, agents |-> AgentList],
                         stage |-> "sent"]}
                /\ UNCHANGED lastHealth
           ELSE /\ lastHealth' = [status |-> 200, overall |-> overall,
                                  checks |-> checks, agents |-> AgentList]
                /\ UNCHANGED healthCalls
    /\ UNCHANGED <<agents, forwards, coordResponse, agg, autoHealBody, chain, now>>
    /\ UNCHANGED <<qvars, hvars>>

(* handleHealthCheck from the return of triggerSelfHeal: the response holds
   the checks computed before the call and the agent records as they are now *)
HealthCheckReturn(c, returned) ==
    /\ c \in healthCalls
    /\ healthCalls' = healthCalls \ {c}
    /\ lastHealth' = IF returned
                     THEN [status |-> 200, overall |-> c.overall,
                           checks |-> c.checks, agents |-> AgentList]
                     ELSE [status |-> 500]
    /\ UNCHANGED <<agents, lastHealthCheck, forwards, coordResponse, coordCount, agg, autoHealBody, chain, now>>
    /\ UNCHANGED <<qvars, hvars>>

(* the clock advances *)
CoordTick ==
    /\ now + CoordTickMs <= MaxCoordTicks * CoordTickMs
    /\ now' = now + CoordTickMs
    /\ UNCHANGED <<cvars, agg, autoHealBody, chain>>
    /\ UNCHANGED <<qvars, hvars>>

(* GET /api/health of the Worker, on a health answer with the given numbers of
   failing checks, warning checks and agents in error *)
ApiHealth ==
    /\ "overall" \notin DOMAIN agg
    /\ LET overall == Overall(agg.failedChecks, agg.warnChecks, agg.errorAgents)
       IN  agg' = [failedChecks |-> agg.failedChecks, warnChecks |-> agg.warnChecks,
                   errorAgents |-> agg.errorAgents, overall |-> overall,
                   statusCode |-> StatusCode(overall)]
    /\ UNCHANGED <<cvars, now, chain, autoHealBody>>
    /\ UNCHANGED <<qvars, hvars>>

----------------------------------------------------------------------------
(* Calls between the components: which handler fetches which *)

(* a request: the component it is sent to and the path (or the wake-up) *)
Op(to, path) == [to |-> to, path |-> path]

(* executeRestart that asks the Coordinator for a health check *)
RestartCallsHealthCheck ==
    <<Op(Str_taskQueue, "/enqueue"), Op(Str_coordinator, "/health")>>

(* executeRestart: POST /enqueue to the Task Scheduler, then POST /status to
   the Coordinator *)
RestartCalls ==
    <<Op(Str_taskQueue, "/enqueue"), Op(Str_coordinator, "/status")>>

(* the calls executeHealAction makes for one action: restart and retry call
   other components, rollback and alert write to KV, scale does nothing *)
ActionCalls(kind) ==
    CASE kind = "restart" -> RestartCalls
      [] kind = "retry" -> <<Op(Str_taskQueue, "/retry-failed")>>
      [] OTHER -> <<>>

(* the kinds of action explored in a heal *)
PlanKinds == {"restart", "retry", "alert"}

RECURSIVE CallsOfActions(_)
CallsOfActions(kinds) ==
    IF kinds = <<>> THEN <<>>
    ELSE ActionCalls(Head(kinds)) \o CallsOfActions(Tail(kinds))

(* handleAutoHeal: the calls of the actions it derives, executed in order;
   none when disabled, rejected or nothing is derived *)
HealPlans ==
    {CallsOfActions(ks) : ks \in UNION {[1..n -> PlanKinds] : n \in 0..MaxPlanActions}}

(* AgentCoordinator: handleHealthCheck calls autoHeal when the result is
   unhealthy and self-healing is on; handleTriggerAgent forwards to the named
   component unless it answers 404 or 400; handleStatusUpdate calls nothing *)
CoordinatorPlans(path) ==
    CASE path = "/health" -> {<<>>, <<Op(Str_selfHealer, "/auto-heal")>>}
      [] path = "/agents/{name}/trigger" ->
             {<<>>} \cup {<<Op(n, "/trigger")>> : n \in Triggerable}
      [] path = "/status" -> {<<>>}

(* SelfHealerAgent: handleAutoHeal, handleManualTrigger (one action, or a
   rejection) and alarm (health check, then handleAutoHeal when unhealthy) *)
HealerPlans(path) ==
    CASE path = "/auto-heal" -> HealPlans
      [] path = "/trigger" -> {<<>>} \cup {ActionCalls(k) : k \in PlanKinds}
      [] path = "alarm" ->
             {<<>>} \cup {<<Op(Str_coordinator, "/health")>> \o p : p \in HealPlans}

(* TaskQueueAgent: /process, /trigger and alarm run handleProcessNext, which
   executes one task by its type or finds none; the others call nothing *)
QueuePlans(path) ==
    CASE path \in {"/process", "/trigger", "alarm"} ->
             {<<>>, <<Op(Str_repoScraper, "/scrape")>>, <<Op(Str_syncManager, "/check")>>,
              <<Op(Str_coordinator, "/health")>>, <<Op(Str_selfHealer, "/auto-heal")>>}
      [] path = "/enqueue" -> {<<>>}
      [] path = "/retry-failed" -> {<<>>}

(* RepoScraperAgent: handleScrapeAll ends with notifyCoordinator('idle') *)
ScraperPlans(path) ==
    CASE path = "/trigger" -> {<<Op(Str_coordinator, "/status")>>}
      [] path = "/scrape" -> {<<>>}
      [] path = "/analyze-cohesion" -> {<<>>}

(* SyncManagerAgent: a manual sync scrapes, on a new commit analyzes the
   cohesion, and on a low score triggers a heal; /check asks GitHub only *)
SyncPlans(path) ==
    CASE path = "/trigger" ->
             {<<Op(Str_repoScraper, "/scrape")>>,
              <<Op(Str_repoScraper, "/scrape"), Op(Str_repoScraper, "/analyze-cohesion")>>,
              <<Op(Str_repoScraper, "/scrape"), Op(Str_repoScraper, "/analyze-cohesion"),
                Op(Str_selfHealer, "/trigger")>>}
      [] path = "/check" -> {<<>>}

(* the sequences of calls a handler can make, by the request it serves *)
Plans(op) ==
    CASE op.to = Str_coordinator -> CoordinatorPlans(op.path)
      [] op.to = Str_selfHealer -> HealerPlans(op.path)
      [] op.to = Str_taskQueue -> QueuePlans(op.path)
      [] op.to = Str_repoScraper -> ScraperPlans(op.path)
      [] op.to = Str_syncManager -> SyncPlans(op.path)

(* the requests and wake-ups the three components receive from outside *)
RootRequests ==
    {Op(Str_coordinator, "/health"), Op(Str_coordinator, "/status"),
     Op(Str_coordinator, "/agents/{name}/trigger"),
     Op(Str_selfHealer, "/auto-heal"), Op(Str_selfHealer, "/trigger"),
     Op(Str_selfHealer, "alarm"),
     Op(Str_taskQueue, "/enqueue"), Op(Str_taskQueue, "/process"),
     Op(Str_taskQueue, "/retry-failed"), Op(Str_taskQueue, "alarm")}

(* the requests the components send only to one another *)
InternalRequests ==
    {Op(n, "/trigger") : n \in Triggerable} \cup
    {Op(Str_repoScraper, "/scrape"), Op(Str_repoScraper, "/analyze-cohesion"),
     Op(Str_syncManager, "/check")}

AllPlans == UNION {Plans(op) : op \in RootRequests \cup InternalRequests}

(* a request arrives from outside and its handler starts *)
ChainStart(op, plan) ==
    /\ chain.stack = <<>>
    /\ plan \in Plans(op)
    /\ chain' = [stack |-> <<[op |-> op, todo |-> plan]>>, root |-> Some(op),
                 reentered |-> FALSE, depth |-> 1, answered |-> FALSE]
    /\ UNCHANGED <<qvars, hvars, cvars, agg, autoHealBody, now>>

(* the handler on top reaches its next `await stub.fetch(...)`: the request is
   delivered to the target object, which runs its handler whether or not an
   earlier handler of that object is suspended *)
ChainCall(plan) ==
    /\ chain.stack # <<>>
    /\ Len(chain.stack) < MaxDepth
    /\ LET top == chain.stack[Len(chain.stack)]
       IN  /\ top.todo # <<>>
           /\ plan \in Plans(Head(top.todo))
           /\ chain' = [chain EXCEPT
                  !.stack = Append(@, [op |-> Head(top.todo), todo |-> plan]),
                  !.depth = IF Len(chain.stack) + 1 > @ THEN Len(chain.stack) + 1 ELSE @,
                  !.reentered = @ \/ \E i \in DOMAIN chain.stack :
                                        chain.stack[i].op.to = Head(top.todo).to]
    /\ UNCHANGED <<qvars, hvars, cvars, agg, autoHealBody, now>>

(* the handler on top has no call left and answers; its caller goes on with
   its next call, or gives up its remaining calls when the answer makes it
   throw *)
ChainReturn(abort) ==
    /\ chain.stack # <<>>
    /\ LET n == Len(chain.stack)
           top == chain.stack[n]
       IN  /\ top.todo = <<>>
           /\ IF n = 1
              THEN /\ ~abort
                   /\ chain' = [chain EXCEPT !.stack = <<>>, !.answered = TRUE]
              ELSE chain' = [chain EXCEPT
                       !.stack = [i \in 1..(n - 1) |->
                                    IF i = n - 1
                                    THEN [@[i] EXCEPT !.todo = IF abort THEN <<>> ELSE Tail(@)]
                                    ELSE @[i]]]
    /\ UNCHANGED <<qvars, hvars, cvars, agg, autoHealBody, now>>

----------------------------------------------------------------------------
(* Initial state: the state after construction of each instance *)

QueueInit ==
    /\ tasks = <<>>
    /\ processing = {}
    /\ stats = [totalEnqueued |-> 0, totalCompleted |-> 0,
                totalFailed |-> 0, totalRetried |-> 0]
    /\ alarm = NONE
    /\ executing = {}
    /\ hist = <<>>
    /\ reports = 0
    /\ lastProcess = NONE
    /\ stored = [tasks |-> <<>>, processing |-> {},
                 stats |-> [totalEnqueued |-> 0, totalCompleted |-> 0,
                            totalFailed |-> 0, totalRetried |-> 0]]

HealerInit ==
    /\ actions = <<>>
    /\ healCount = 0
    /\ consecutiveFailures = 0
    /\ circuitOpen = FALSE
    /\ circuitOpenedAt = NONE
    /\ calls = {}
    /\ dispatched = 0
    /\ lastResponse = NONE

(* the registry initializeAgents builds *)
InitialAgents ==
    [n \in AgentNames |->
        [status |-> "idle", lastActivity |-> 0, taskCount |-> 0, errorCount |-> 0]]

(* no request in progress *)
ChainInit ==
    chain = [stack |-> <<>>, root |-> NONE, reentered |-> FALSE, depth |-> 0,
             answered |-> FALSE]

(* the registry of a Coordinator that is constructed again: the constructor
   reads nothing from storage, and no handler writes the registry to it *)
CoordinatorRebuilt == InitialAgents

CoordInit ==
    /\ agents = InitialAgents
    /\ lastHealthCheck = 0
    /\ forwards = {}
    /\ healthCalls = {}
    /\ lastHealth = NONE
    /\ coordResponse = NONE
    /\ coordCount = [updates |-> 0, triggers |-> 0, healths |-> 0]

Init ==
    /\ QueueInit
    /\ HealerInit
    /\ CoordInit
    /\ now = 0
    /\ agg = NONE
    /\ ChainInit
    /\ autoHealBody = NONE

(* every combination of the three counts, before GET /api/health answers *)
AggInit ==
    /\ QueueInit
    /\ HealerInit
    /\ CoordInit
    /\ now = 0
    /\ ChainInit
    /\ agg \in [failedChecks : 0..MaxCount, warnChecks : 0..MaxCount,
                errorAgents : 0..MaxCount]
    /\ autoHealBody = NONE

(* The Task Scheduler under enqueue, status reports, processNext, retryFailed
   and its wake-up *)
QueueNext ==
    \/ \E p \in PriorityInputs, m \in MaxRetriesInputs : Enqueue(p, m, FALSE)
    \/ \E id \in 1..MaxTasks, st \in UpdateStatuses : UpdateTask(id, st)
    \/ ProcessNext
    \/ \E id \in 1..MaxTasks, ok \in BOOLEAN : ProcessNextReturn(id, ok)
    \/ RetryFailed
    \/ Alarm
    \/ QueueTick

SpecQ == Init /\ [][QueueNext]_vars

(* The Remediation Engine under manualTrigger, autoHeal, status and resetCircuit *)
HealerNext ==
    \/ \E k \in ManualKinds, t \in ManualTargets : ManualTrigger(k, t)
    \/ \E h \in Snapshots : AutoHeal(h)
    \/ \E c \in calls, o \in DispatchOutcomes : ExecuteReturn(c, o)
    \/ HealerStatus
    \/ ResetCircuit
    \/ \E h \in Snapshots, u \in BOOLEAN : SelfCheck(h, u)
    \/ HealerTick

SpecH == Init /\ [][HealerNext]_vars

(* The Remediation Engine under autoHeal alone, each run on one health report
   of HealthInputs *)
AutoHealInit ==
    /\ QueueInit
    /\ HealerInit
    /\ CoordInit
    /\ now = 0
    /\ agg = NONE
    /\ ChainInit
    /\ autoHealBody \in HealthInputs

AutoHealNext ==
    \/ AutoHeal(autoHealBody)
    \/ \E c \in calls, o \in DispatchOutcomes : ExecuteReturn(c, o)

SpecAutoHeal == AutoHealInit /\ [][AutoHealNext]_vars

(* The three components together: healthCheck sends its snapshot to autoHeal,
   whose dispatches enqueue on the Task Scheduler and report to the
   Coordinator while healthCheck awaits the answer *)

(* health reports posted to autoHeal from outside the Coordinator *)
ExternalSnapshots ==
    {[checks |-> <<>>, agents |-> <<[name |-> Str_ghost, status |-> "error"]>>]}

(* the task handleEnqueue builds from the body executeRestart sends *)
SelfHealTask == [NewTask(Some(1), NONE) EXCEPT !.type = "self_heal"]

(* what a dispatch does to the Task Scheduler: restart enqueues unless its
   first fetch throws (a 500 of handleEnqueue comes after the task is stored),
   retry runs handleRetryFailed *)
DispatchOnQueue(kind, o) ==
    IF kind = "restart" /\ o # "fail"
    THEN /\ tasks' = Append(tasks, SelfHealTask)
         /\ stats' = [stats EXCEPT !.totalEnqueued = @ + 1]
         /\ UNCHANGED <<hist, processing>>
         /\ PersistState
    ELSE IF kind = "retry" /\ o # "fail"
    THEN /\ HandleRetryFailed
         /\ UNCHANGED processing
         /\ PersistState
    ELSE UNCHANGED <<tasks, stats, hist, processing, stored>>

(* what a dispatch does to the Coordinator: the second fetch of executeRestart
   reports recovering, which handleStatusUpdate applies to a registered agent *)
DispatchOnCoordinator(kind, target, o) ==
    IF kind = "restart" /\ Succeeded(o) /\ target \in AgentNames
    THEN agents' = Reported(target, "recovering")
    ELSE UNCHANGED agents

(* a healthCheck, one at a time *)
LoopHealthCheckBegin(kv, d1) ==
    /\ healthCalls = {}
    /\ HealthCheckBegin(kv, d1)

(* the auto-heal request of triggerSelfHeal reaches the Remediation Engine *)
LoopDeliver(c) ==
    /\ c \in healthCalls
    /\ c.stage = "sent"
    /\ calls = {}
    /\ HandleAutoHeal(c.sent)
    /\ healthCalls' = (healthCalls \ {c}) \cup
           {[c EXCEPT !.stage = IF calls' = {} THEN "answered" ELSE "delivered"]}
    /\ UNCHANGED <<agents, lastHealthCheck, forwards, lastHealth, coordResponse,
                   coordCount, agg, autoHealBody, chain, now>>
    /\ UNCHANGED qvars

(* an auto-heal request from outside *)
LoopExternalAutoHeal(h) ==
    /\ calls = {}
    /\ healthCalls = {}
    /\ HandleAutoHeal(h)
    /\ UNCHANGED <<qvars, cvars, agg, autoHealBody, chain, now>>

(* a dispatch returns: its effects on the Task Scheduler and the Coordinator,
   then executeHealAction goes on; the last one answers the auto-heal request *)
LoopExecuteReturn(c, o) ==
    /\ ExecuteHealAction(c, o)
    /\ DispatchOnQueue(actions[c.action].kind, o)
    /\ DispatchOnCoordinator(actions[c.action].kind, actions[c.action].target, o)
    /\ healthCalls' =
           IF c.op = "autoHeal" /\ c.rest = <<>>
           THEN {[h EXCEPT !.stage = IF @ = "delivered" THEN "answered" ELSE @] :
                    h \in healthCalls}
           ELSE healthCalls
    /\ UNCHANGED <<alarm, executing, reports, lastProcess, now>>
    /\ UNCHANGED <<lastHealthCheck, forwards, lastHealth, coordResponse, coordCount,
                   agg, autoHealBody, chain>>

(* LoopHealthCheckReturn that answers without waiting for autoHeal *)
LoopHealthCheckReturnEarly(c) ==
    /\ c \in healthCalls
    /\ HealthCheckReturn(c, TRUE)

(* triggerSelfHeal returns with the answer of autoHeal, or throws when the
   request could not be delivered *)
LoopHealthCheckReturn(c) ==
    /\ c \in healthCalls
    /\ \/ c.stage = "answered" /\ HealthCheckReturn(c, TRUE)
       \/ c.stage = "sent" /\ HealthCheckReturn(c, FALSE)

LoopNext ==
    \/ \E n \in UpdateNames : StatusUpdate(n, "error")
    \/ \E kv \in ProbeOutcomes, d1 \in ProbeOutcomes : LoopHealthCheckBegin(kv, d1)
    \/ \E c \in healthCalls : LoopDeliver(c)
    \/ \E h \in ExternalSnapshots : LoopExternalAutoHeal(h)
    \/ \E c \in calls, o \in DispatchOutcomes : LoopExecuteReturn(c, o)
    \/ \E c \in healthCalls : LoopHealthCheckReturn(c)

SpecLoop == Init /\ [][LoopNext]_vars

(* The Coordinator under getAgent, statusUpdate, triggerAgent and healthCheck *)
CoordNext ==
    \/ \E n \in GetNames : GetAgent(n)
    \/ \E n \in UpdateNames, st \in AgentStatus : StatusUpdate(n, st)
    \/ \E n \in TriggerNames : TriggerAgent(n)
    \/ \E c \in forwards : ScraperNotify(c)
    \/ \E c \in forwards, r \in BOOLEAN : TriggerReturn(c, r)
    \/ \E kv \in ProbeOutcomes, d1 \in ProbeOutcomes : HealthCheckBegin(kv, d1)
    \/ \E c \in healthCalls, r \in BOOLEAN : HealthCheckReturn(c, r)
    \/ CoordTick

SpecC == Init /\ [][CoordNext]_vars

(* The aggregation of healthCheck on every combination of the counts *)
AggNext == ApiHealth

SpecAgg == AggInit /\ [][AggNext]_vars

(* One request at a time to any of the three components, with every call its
   handlers make to one another *)
ChainNext ==
    \/ \E op \in RootRequests : \E plan \in Plans(op) : ChainStart(op, plan)
    \/ \E plan \in AllPlans : ChainCall(plan)
    \/ \E abort \in BOOLEAN : ChainReturn(abort)

(* a handler that can take its next step does: the runtime delivers every
   fetch and runs every handler up to its next await *)
ChainProgress ==
    \/ \E plan \in AllPlans : ChainCall(plan)
    \/ \E abort \in BOOLEAN : ChainReturn(abort)

SpecChain == Init /\ [][ChainNext]_vars /\ WF_vars(ChainProgress)

(* The Task Scheduler driven by enqueue and processNext alone, with the status
   history of every task recorded *)
RetryNext ==
    \/ \E p \in PriorityInputs, m \in MaxRetriesInputs : Enqueue(p, m, TRUE)
    \/ ProcessNext
    \/ \E id \in 1..MaxTasks, ok \in BOOLEAN : ProcessNextReturn(id, ok)
    \/ RetryFailed

SpecRetry == Init /\ [][RetryNext]_vars

(* The Task Scheduler under enqueue, processNext, retryFailed and updates of a
   task's maxRetries *)
PatchNext ==
    \/ \E p \in PriorityInputs, m \in MaxRetriesInputs : Enqueue(p, m, TRUE)
    \/ \E id \in 1..MaxTasks, m \in PatchedMaxRetries : UpdateFields(id, m)
    \/ ProcessNext
    \/ \E id \in 1..MaxTasks, ok \in BOOLEAN : ProcessNextReturn(id, ok)
    \/ RetryFailed

SpecPatch == Init /\ [][PatchNext]_vars

(* the instance is evicted and constructed again: the constructor loads what
   persistState last wrote; the handlers that were being awaited are gone *)
Restart ==
    /\ tasks' = stored.tasks
    /\ processing' = stored.processing
    /\ stats' = stored.stats
    /\ executing' = {}
    /\ UNCHANGED <<alarm, hist, reports, lastProcess, stored, now>>
    /\ UNCHANGED <<hvars, cvars, agg, autoHealBody, chain>>

(* the requests a caller of the Task Scheduler sends when it pleases *)
LiveRequests ==
    \/ \E m \in {Some(1)} : Enqueue(NONE, m, FALSE)
    \/ \E id \in 1..MaxTasks, st \in UpdateStatuses : UpdateTask(id, st)
    \/ ProcessNext
    \/ Restart

(* a handler that is being awaited settles *)
LiveHandlerReturns == \E id \in 1..MaxTasks, ok \in BOOLEAN : ProcessNextReturn(id, ok)

LiveNext ==
    \/ LiveRequests
    \/ LiveHandlerReturns
    \/ Alarm
    \/ QueueTick

(* The Task Scheduler with restarts of its instance; an awaited handler
   settles, time passes and a due wake-up is delivered, while no caller is
   obliged to send anything *)
SpecLive ==
    /\ Init
    /\ [][LiveNext]_vars
    /\ WF_vars(LiveHandlerReturns)
    /\ WF_vars(Alarm)
    /\ WF_vars(QueueTick)

----------------------------------------------------------------------------
(* Properties of the Task Scheduler *)

FiveStatuses == {"pending", "running", "failed", "retrying", "completed"}

(* C1: the numbers of tasks in status pending, running, failed, retrying and
   completed sum to stats.totalEnqueued, which is the number of task records:
   no record is removed and no task has a status outside those five. *)
C1_CountsSumToEnqueued ==
    /\ CountStatus("pending") + CountStatus("running") + CountStatus("failed")
         + CountStatus("retrying") + CountStatus("completed") = stats.totalEnqueued
    /\ Len(tasks) = stats.totalEnqueued
    /\ \A i \in TaskIds : tasks[i].status \in FiveStatuses

(* two tasks exist, one completed and one retrying, after a status report *)
C1_Witness ==
    /\ Len(tasks) = 2
    /\ reports > 0
    /\ \E i, j \in TaskIds : tasks[i].status = "completed" /\ tasks[j].status = "retrying"

(* C2: 0 <= retryCount <= maxRetries for every task; no step decreases a
   retryCount; no step moves a task that is failed with retryCount = maxRetries
   to retrying. *)
C2_RetryCountBounded ==
    [][/\ \A i \in DOMAIN tasks' :
             /\ 0 <= tasks'[i].retryCount
             /\ tasks'[i].retryCount <= tasks'[i].maxRetries
       /\ \A i \in TaskIds :
             /\ i \in DOMAIN tasks'
             /\ tasks'[i].retryCount >= tasks[i].retryCount
             /\ (tasks[i].status = "failed" /\ tasks[i].retryCount = tasks[i].maxRetries)
                   => tasks'[i].status # "retrying"]_vars

(* a task is failed with its retries exhausted, after at least one retry *)
C2_Witness ==
    \E i \in TaskIds :
        /\ tasks[i].status = "failed"
        /\ tasks[i].retryCount = tasks[i].maxRetries
        /\ tasks[i].retryCount > 0

(* task i is ahead of task j in the order of selection: smaller priority, or
   equal priority and enqueued earlier *)
Ahead(i, j) ==
    \/ tasks[i].priority < tasks[j].priority
    \/ tasks[i].priority = tasks[j].priority /\ i <= j

(* C3: the task a processNext starts executing was pending or retrying and is
   ahead of every other pending or retrying task; a processNext that finds no
   such task answers processed=false and changes no task, counter or in-flight
   entry. *)
C3_SelectsSmallestPriority ==
    [][/\ \A id \in executing' \ executing :
             /\ id \in TaskIds
             /\ tasks[id].status \in {"pending", "retrying"}
             /\ \A j \in TaskIds :
                   tasks[j].status \in {"pending", "retrying"} => Ahead(id, j)
             /\ Cardinality(executing' \ executing) = 1
       /\ (lastProcess' = [processed |-> FALSE] /\ lastProcess' # lastProcess)
             => /\ \A j \in TaskIds : tasks[j].status \notin {"pending", "retrying"}
                /\ UNCHANGED <<tasks, processing, stats, executing>>]_vars

(* a later task of smaller priority is executing while an earlier one waits,
   and a processNext has answered processed=false before *)
C3_Witness ==
    \E i, j \in TaskIds :
        /\ i < j
        /\ j \in executing
        /\ tasks[i].status = "pending"
        /\ tasks[j].priority < tasks[i].priority
        /\ lastProcess = [processed |-> FALSE]

(* the first of two pending tasks of equal priority is executing *)
C3_WitnessTie ==
    \E i, j \in TaskIds :
        /\ i < j
        /\ i \in executing
        /\ tasks[j].status = "pending"
        /\ tasks[j].priority = tasks[i].priority

(* the status sequence of the scenario of C4 *)
ThreeFailures ==
    <<"pending", "running", "failed", "retrying", "running", "failed",
      "retrying", "running", "failed">>

IsPrefix(a, b) == Len(a) <= Len(b) /\ SubSeq(b, 1, Len(a)) = a

NeverCompleted(h) == \A k \in 1..Len(h) : h[k] # "completed"

(* C4: under enqueue and processNext alone, the statuses assigned to a task
   with maxRetries = 2 whose handler has failed at every execution form a
   prefix of pending, running, failed, retrying, running, failed, retrying,
   running, failed; when the task is failed the sequence is complete,
   retryCount = 2 and processNext does not select the task; the sequence is
   never extended. *)
C4_ThreeFailuresScenario ==
    /\ [](\A i \in TaskIds :
            (tasks[i].maxRetries = 2 /\ NeverCompleted(hist[i]))
              => /\ IsPrefix(hist[i], ThreeFailures)
                 /\ tasks[i].status = "failed"
                      => /\ hist[i] = ThreeFailures
                         /\ tasks[i].retryCount = 2
                         /\ \A k \in 1..Len(PendingTasks) : PendingTasks[k] # i)
    /\ [][\A i \in TaskIds :
            hist[i] = ThreeFailures
              => hist'[i] = ThreeFailures /\ i \notin executing']_vars

(* a task has gone through the whole sequence *)
C4_Witness ==
    \E i \in TaskIds : tasks[i].maxRetries = 2 /\ hist[i] = ThreeFailures

(* the edges of the task state machine *)
Edges ==
    {<<"pending", "running">>, <<"running", "completed">>, <<"running", "failed">>,
     <<"failed", "retrying">>, <<"retrying", "running">>}

(* C5: every change of a task's status follows an edge of the state machine
   (running -> failed -> retrying within one step counts as two edges, and
   is allowed only with retries remaining); a completed task and a failed
   task with retries exhausted never change status. *)
C5_TransitionsFollowEdges ==
    [][\A i \in TaskIds :
          tasks'[i].status # tasks[i].status
            => \/ /\ <<tasks[i].status, tasks'[i].status>> \in Edges
                  /\ tasks[i].status = "failed" => RetriesRemain(tasks[i])
               \/ /\ tasks[i].status = "running"
                  /\ tasks'[i].status = "retrying"
                  /\ RetriesRemain(tasks[i])]_vars

(* C6: every completed task has its result and its completedAt set. *)
C6_CompletedHasResult ==
    \A i \in TaskIds :
        tasks[i].status = "completed"
          => tasks[i].hasResult /\ tasks[i].completedAtSet

----------------------------------------------------------------------------
(* Properties of the Remediation Engine *)

Finished(i, st) ==
    /\ i \in DOMAIN actions
    /\ actions[i].status = "executing"
    /\ actions'[i].status = st

(* C7: consecutiveFailures counts the failed executions since the last
   successful one (or the last reset): a failed execution adds 1, a successful
   one sets it to 0; the breaker opens on exactly the step in which a failed
   execution takes the count from 4 to 5, and is open whenever the count has
   reached 5. *)
C7_OpensAtFifthFailure ==
    /\ [](~circuitOpen => consecutiveFailures < CircuitThreshold)
    /\ [][/\ \A i \in DOMAIN actions :
                /\ Finished(i, "failed") => consecutiveFailures' = consecutiveFailures + 1
                /\ Finished(i, "completed") => consecutiveFailures' = 0
          /\ (~circuitOpen /\ circuitOpen')
                => /\ consecutiveFailures = CircuitThreshold - 1
                   /\ consecutiveFailures' = CircuitThreshold
                   /\ \E i \in DOMAIN actions : Finished(i, "failed")]_vars

(* one success followed by five failures: the breaker has just opened *)
C7_Witness ==
    /\ Len(actions) = 6
    /\ actions[1].status = "completed"
    /\ \A i \in 2..6 : actions[i].status = "failed"
    /\ circuitOpen
    /\ consecutiveFailures = CircuitThreshold

(* C8: an open breaker has openedAt set and consecutiveFailures >= 5. *)
C8_OpenImpliesThreshold ==
    circuitOpen => circuitOpenedAt # NONE /\ consecutiveFailures >= CircuitThreshold

(* C9: no action starts executing in a state in which the breaker is open. *)
C9_NoExecutionWhileOpen ==
    [][\A i \in DOMAIN actions' :
          (i \notin DOMAIN actions /\ actions'[i].status = "executing")
            => ~circuitOpen']_vars

IsRejection(r) == "status" \in DOMAIN r /\ r.status = 503

(* C10: a manualTrigger is answered 503 only while the breaker is open, with
   resetAt = openedAt + 60000, and that step creates no action, sends no call
   and leaves the breaker, the history and the counters unchanged; while the
   breaker is open no manualTrigger creates an action or is answered otherwise
   than by its own earlier dispatch returning; no request is answered 500. *)
C10_TriggerRejectedWhileOpen ==
    /\ [](lastResponse # [status |-> 500])
    /\ [][/\ (lastResponse' # lastResponse /\ IsRejection(lastResponse'))
                => /\ circuitOpen
                   /\ circuitOpenedAt # NONE
                   /\ lastResponse'.resetAt = circuitOpenedAt[1] + 60000
                   /\ UNCHANGED <<actions, calls, dispatched, consecutiveFailures,
                                  circuitOpen, circuitOpenedAt, healCount>>
          /\ circuitOpen
                => /\ \A c \in calls' \ calls :
                         c.op = "trigger" => c.action \in DOMAIN actions
                   /\ (lastResponse' # lastResponse /\ "action" \in DOMAIN lastResponse')
                         => lastResponse'.action \in DOMAIN actions]_vars

(* five failed manual triggers, then time passes and a sixth is rejected *)
C10_Witness ==
    /\ Len(actions) = 5
    /\ \A i \in 1..5 : actions[i].status = "failed" /\ actions[i].kind = "restart"
    /\ healCount = 0
    /\ circuitOpen
    /\ circuitOpenedAt # NONE
    /\ now > circuitOpenedAt[1]
    /\ lastResponse = [status |-> 503, resetAt |-> circuitOpenedAt[1] + 60000]

Closes == circuitOpen /\ ~circuitOpen'

(* C11 as stated: the breaker closes only inside status() or resetCircuit(),
   and only when now - openedAt >= 60000. *)
C11_ClosesOnlyAfterWindow ==
    [][Closes => /\ HealerStatus \/ ResetCircuit
                 /\ circuitOpenedAt # NONE
                 /\ now - circuitOpenedAt[1] >= 60000]_vars

(* C11, amended: the breaker closes only inside status() or resetCircuit();
   status() closes it only when now - openedAt >= 60000, resetCircuit() closes
   it whatever time has elapsed; a step that closes it creates and finishes no
   action and answers no request; while the breaker is open every
   manualTrigger is answered 503, also past the reset window. *)
C11_ClosesOnlyByStatusOrReset ==
    [][/\ Closes => /\ HealerStatus \/ ResetCircuit
                    /\ UNCHANGED <<actions, calls, dispatched, healCount, lastResponse>>
       /\ (Closes /\ HealerStatus)
             => circuitOpenedAt # NONE /\ now - circuitOpenedAt[1] >= 60000
       /\ (circuitOpen /\ \E k \in ManualKinds, t \in ManualTargets : ManualTrigger(k, t))
             => IsRejection(lastResponse')]_vars

(* five failures opened the breaker at time 0, a trigger was rejected, and two
   reset windows later the breaker is closed again *)
C11_Witness ==
    /\ Len(actions) = 5
    /\ \A i \in 1..5 : actions[i].status = "failed"
    /\ lastResponse = [status |-> 503, resetAt |-> 60000]
    /\ now = 2 * 60000
    /\ ~circuitOpen
    /\ consecutiveFailures = 0

----------------------------------------------------------------------------
(* Properties of the Coordinator *)

(* C12: overall is unhealthy exactly when f >= 1 or e >= 2, degraded exactly
   when f = 0, e <= 1 and (w >= 1 or e = 1), and healthy exactly when f, w and
   e are all 0, for the numbers f of failing checks, w of warning checks and e
   of agents in error. *)
C12_OverallTable ==
    "overall" \in DOMAIN agg =>
        LET f == agg.failedChecks
            w == agg.warnChecks
            e == agg.errorAgents
        IN  /\ agg.overall = "unhealthy" <=> (f >= 1 \/ e >= 2)
            /\ agg.overall = "degraded" <=> (f = 0 /\ e <= 1 /\ (w >= 1 \/ e = 1))
            /\ agg.overall = "healthy" <=> (f = 0 /\ w = 0 /\ e = 0)
            /\ agg.overall \in {"unhealthy", "degraded", "healthy"}

(* no failing check, no warning and one agent in error: degraded *)
C12_Witness ==
    /\ "overall" \in DOMAIN agg
    /\ agg.failedChecks = 0 /\ agg.warnChecks = 0 /\ agg.errorAgents = 1
    /\ agg.overall = "degraded"

(* C13: a triggerAgent on a triggerable agent whose forwarded call has
   returned leaves that agent at status active with taskCount one higher and
   no other agent's record changed, whatever the triggered scraper has
   reported to the Coordinator in the meantime; on a fresh Coordinator the
   repo-scraper goes from idle/0 to active/1 *)
C13_TriggerRecord ==
    [][\A c \in forwards :
          TriggerReturn(c, TRUE) =>
              /\ c.name \in Triggerable
              /\ agents'[c.name].status = "active"
              /\ agents'[c.name].taskCount = agents[c.name].taskCount + 1
              /\ agents'[c.name].lastActivity = now
              /\ \A n \in AgentNames \ {c.name} : agents'[n] = agents[n]
              /\ DOMAIN agents' = AgentNames
              /\ (c.name = Str_repoScraper /\ agents[c.name].taskCount = 0) =>
                     /\ c.notified
                     /\ agents'[c.name].taskCount = 1]_vars

C13_Witness ==
    /\ coordResponse = [status |-> 200, triggered |-> Str_repoScraper]
    /\ coordCount.updates = 0
    /\ forwards = {}
    /\ agents[Str_repoScraper].status = "active"
    /\ agents[Str_repoScraper].taskCount = 1
    /\ \A n \in AgentNames \ {Str_repoScraper} : agents[n] = InitialAgents[n]

(* C14: a rejected Coordinator request changes nothing in the registry:
   getAgent, triggerAgent and statusUpdate on an unknown name answer 404,
   triggerAgent on "coordinator" answers 400 and forwards no call, and in each
   case every agent record and the set of registered names stay as they were *)
C14_RejectedLeavesRegistry ==
    [][/\ (\A g \in GetNames \ AgentNames :
              GetAgent(g) =>
                  (coordResponse' = [status |-> 404] /\ agents' = agents /\ forwards' = forwards))
       /\ (\A u \in UpdateNames \ AgentNames : \A st \in AgentStatus :
              StatusUpdate(u, st) =>
                  (coordResponse' = [status |-> 404] /\ agents' = agents /\ forwards' = forwards))
       /\ (\A t \in TriggerNames \ AgentNames :
              TriggerAgent(t) =>
                  (coordResponse' = [status |-> 404] /\ agents' = agents /\ forwards' = forwards))
       /\ (TriggerAgent(Str_coordinator) =>
              (coordResponse' = [status |-> 400] /\ agents' = agents /\ forwards' = forwards))
       /\ DOMAIN agents' = AgentNames]_vars

C14_Witness ==
    /\ coordResponse = [status |-> 400]
    /\ agents[Str_repoScraper].status = "error"
    /\ agents[Str_repoScraper].errorCount = 1
    /\ forwards = {}
    /\ DOMAIN agents = AgentNames

(* C15: an agent's errorCount changes only by going up by one, and only in a
   step that takes the agent from a status other than error into error; a
   report of error for an agent already in error leaves it as it was *)
C15_ErrorCountOnTransition ==
    [][\A n \in AgentNames :
          agents'[n].errorCount # agents[n].errorCount =>
              /\ agents'[n].errorCount = agents[n].errorCount + 1
              /\ agents[n].status # "error"
              /\ agents'[n].status = "error"]_vars

(* C16: operations on the Coordinator never interleave: while a triggerAgent
   or a healthCheck is suspended on its call to another component, the only
   step that reads or writes the Coordinator's state is the return of a
   suspended operation *)
C16_NoInterleaving ==
    [][(forwards # {} \/ healthCalls # {}) =>
          \/ UNCHANGED cvars
          \/ \E c \in forwards, r \in BOOLEAN : TriggerReturn(c, r)
          \/ \E c \in healthCalls, r \in BOOLEAN : HealthCheckReturn(c, r)]_vars

(* C18: what an operation of the Coordinator changed is persisted before it
   answers: after a successful response, a Coordinator rebuilt from what is
   persisted has every agent's status, taskCount and errorCount as they were
   at the response *)
C18_RebuiltEqualsAnswered ==
    (coordResponse # NONE /\ coordResponse.status = 200) =>
        \A n \in AgentNames :
            /\ CoordinatorRebuilt[n].status = agents[n].status
            /\ CoordinatorRebuilt[n].taskCount = agents[n].taskCount
            /\ CoordinatorRebuilt[n].errorCount = agents[n].errorCount

(* C20: an autoHeal received while the breaker is open is answered with the
   CircuitOpen rejection (503), and the step derives and dispatches no action
   and leaves the breaker, the action history and the heal counter unchanged *)
C20_AutoHealRejectedWhileOpen ==
    [][\A h \in Snapshots :
          (SelfHealEnabled /\ circuitOpen /\ AutoHeal(h)) =>
              /\ IsRejection(lastResponse')
              /\ UNCHANGED <<actions, calls, dispatched, consecutiveFailures,
                             circuitOpen, circuitOpenedAt, healCount>>]_vars

(* C21: a recorded action keeps its kind and target, its status only moves
   from executing to completed or failed and never leaves those two, no
   action is removed, and an action is executing (never pending) only while
   the operation that executes it is still awaiting its dispatch *)
C21_ActionsForwardOnly ==
    /\ [](\A i \in DOMAIN actions :
             /\ actions[i].status \in {"executing", "completed", "failed"}
             /\ actions[i].status = "executing" => \E c \in calls : c.action = i)
    /\ [][/\ Len(actions') >= Len(actions)
          /\ (\A i \in DOMAIN actions :
                 /\ actions'[i].kind = actions[i].kind
                 /\ actions'[i].target = actions[i].target
                 /\ \/ actions'[i].status = actions[i].status
                    \/ /\ actions[i].status = "executing"
                       /\ actions'[i].status \in {"completed", "failed"})]_vars

C21_Witness ==
    /\ calls = {}
    /\ Len(actions) >= 3
    /\ \E i \in DOMAIN actions : actions[i].status = "completed" /\ Awaits(actions[i].kind)
    /\ \E i \in DOMAIN actions : actions[i].status = "failed"

(* C22: the execution of an action ends in one of two ways: the dispatch
   succeeded, the action is completed and consecutiveFailures is 0; or the
   dispatch failed or was rejected by the component called, the action is
   failed and consecutiveFailures is one higher *)
C22_ExecutionOutcome ==
    [][\A c \in calls : \A o \in DispatchOutcomes :
          ExecuteReturn(c, o) =>
              IF o = "ok"
              THEN /\ actions'[c.action].status = "completed"
                   /\ consecutiveFailures' = 0
              ELSE /\ actions'[c.action].status = "failed"
                   /\ consecutiveFailures' = consecutiveFailures + 1]_vars

(* C23: enqueue appends one task with status pending and retryCount 0, whose
   priority is the one supplied (0 included) and 5 only when none is
   supplied, and whose maxRetries is the one supplied (0 included) and the
   configured default only when none is supplied; the tasks already there are
   unchanged *)
C23_EnqueueTakesSuppliedValues ==
    [][\A p \in PriorityInputs, m \in MaxRetriesInputs :
          Enqueue(p, m, FALSE) =>
              /\ Len(tasks') = Len(tasks) + 1
              /\ \A i \in TaskIds : tasks'[i] = tasks[i]
              /\ tasks'[Len(tasks')].status = "pending"
              /\ tasks'[Len(tasks')].retryCount = 0
              /\ tasks'[Len(tasks')].priority = (IF p = NONE THEN 5 ELSE p[1])
              /\ tasks'[Len(tasks')].maxRetries =
                     (IF m = NONE THEN MaxRetryAttempts ELSE m[1])]_vars

(* C24: whenever the breaker is open and at least 60000 ms have passed since
   it opened (exactly 60000 included), a status() call closes it: open is
   false, openedAt is cleared and consecutiveFailures is 0; a status() call in
   any other state changes none of the three *)
C24_StatusClosesAtWindow ==
    /\ []((circuitOpen /\ circuitOpenedAt # NONE /\ now - circuitOpenedAt[1] >= 60000)
            => ENABLED <<HealerStatus>>_vars)
    /\ [][HealerStatus =>
              /\ circuitOpen /\ circuitOpenedAt # NONE
              /\ now - circuitOpenedAt[1] >= 60000
              /\ circuitOpen' = FALSE
              /\ circuitOpenedAt' = NONE
              /\ consecutiveFailures' = 0]_vars

(* C25: a report of failed for a task with retryCount < maxRetries takes the
   task out of the in-flight set, adds 1 to totalFailed, sets the task to
   retrying with retryCount and totalRetried one higher, and sets the single
   wake-up deadline to now + backoffBase * 2^retryCount (the retryCount after
   the increment), whatever deadline was pending; with retryCount equal to
   maxRetries the task is failed, only totalFailed goes up and the deadline
   is left as it was *)
C25_FailedReport ==
    [][\A id \in TaskIds :
          UpdateTask(id, "failed") =>
              /\ processing' = processing \ {id}
              /\ \A j \in TaskIds \ {id} : tasks'[j] = tasks[j]
              /\ tasks'[id].maxRetries = tasks[id].maxRetries
              /\ IF tasks[id].retryCount < tasks[id].maxRetries
                 THEN /\ tasks'[id].status = "retrying"
                      /\ tasks'[id].retryCount = tasks[id].retryCount + 1
                      /\ stats' = [stats EXCEPT !.totalFailed = stats.totalFailed + 1,
                                                !.totalRetried = stats.totalRetried + 1]
                      /\ alarm' = <<now + RetryBackoffMs * (2 ^ tasks'[id].retryCount)>>
                 ELSE /\ tasks'[id].status = "failed"
                      /\ tasks'[id].retryCount = tasks[id].retryCount
                      /\ stats' = [stats EXCEPT !.totalFailed = stats.totalFailed + 1]
                      /\ alarm' = alarm]_vars

C25_Witness ==
    /\ reports >= 1
    /\ \E id \in TaskIds :
          /\ tasks[id].status = "retrying"
          /\ tasks[id].retryCount = 1
          /\ alarm = <<now + RetryBackoffMs * 2>>
          /\ id \notin processing
    /\ stats.totalFailed = 1
    /\ stats.totalRetried = 1

(* C26: a handler failure inside processNext leaves the running task, the
   in-flight set, totalFailed, totalRetried and the wake-up deadline as a
   report of failed for the same task would: totalFailed one higher in both
   cases, and with retries remaining the task retrying, retryCount and
   totalRetried one higher and the deadline at now + backoffBase *
   2^retryCount; with retries exhausted the task failed and the deadline
   as it was *)
C26_FailureLikeFailedReport ==
    [][\A id \in TaskIds :
          ProcessNextReturn(id, FALSE) =>
              /\ processing' = processing \ {id}
              /\ stats'.totalFailed = stats.totalFailed + 1
              /\ IF tasks[id].retryCount < tasks[id].maxRetries
                 THEN /\ tasks'[id].status = "retrying"
                      /\ tasks'[id].retryCount = tasks[id].retryCount + 1
                      /\ stats'.totalRetried = stats.totalRetried + 1
                      /\ alarm' = <<now + RetryBackoffMs * (2 ^ tasks'[id].retryCount)>>
                 ELSE /\ tasks'[id].status = "failed"
                      /\ tasks'[id].retryCount = tasks[id].retryCount
                      /\ stats'.totalRetried = stats.totalRetried
                      /\ alarm' = alarm]_vars

(* C27: whenever some task is retrying, a wake-up deadline is pending, so
   that the scheduler's own wake-ups move every retrying task to running
   without an outside process or trigger call *)
C27_RetryingHasWakeUp ==
    (\E i \in TaskIds : tasks[i].status = "retrying") => alarm # NONE

(* C28: a task that became retrying at time t with retry count r is not set
   to running before t + backoffBase * 2^r, by a process call, a trigger or
   a wake-up armed for another task.  The clock starts at 0, so t >= 0 and
   no retrying task with count r may be set to running while
   now < backoffBase * 2^r *)
C28_BackoffRespected ==
    [][\A id \in TaskIds :
          (tasks[id].status = "retrying" /\ tasks'[id].status = "running")
              => now >= RetryBackoffMs * (2 ^ tasks[id].retryCount)]_vars

(* C29: between operations the in-flight set is exactly the set of ids of
   the tasks whose status is running, so that the running count returned by
   status() (the size of the in-flight set) is the number of tasks with
   status running; status() is a read of the state and assigns nothing *)
C29_InFlightIsRunning ==
    /\ processing = {i \in TaskIds : tasks[i].status = "running"}
    /\ StatusResponse.running =
          Cardinality({i \in TaskIds : tasks[i].status = "running"})

C29_Witness ==
    /\ StatusResponse.running = 1
    /\ StatusResponse.total = 2
    /\ reports = 1
    /\ \E i \in TaskIds : tasks[i].status = "running" /\ i \notin executing
    /\ \E j \in TaskIds : tasks[j].status \in {"completed", "retrying"}

(* C30: with self-healing enabled and the breaker closed, autoHeal derives
   one action for each failing check whose name contains "kv" (retry on
   kv-namespace), else "d1" (alert on d1-database), else "agent" (restart on
   the agent the check names), none for any other check, and one restart for
   each agent in status error; it executes them one after another in that
   order, checks before agents, and answers with actionsCount equal to the
   number derived and one success flag per action, true iff the action ended
   completed *)
C30_AutoHealDerivesAndRuns ==
    [][
       LET Has(c, sub) == \E k \in 1..Len(c.name) :
                             /\ k + Len(sub) - 1 <= Len(c.name)
                             /\ \A j \in 1..Len(sub) : c.name[k + j - 1] = sub[j]
           Derives(c) == /\ c.status = "fail"
                         /\ (Has(c, <<"k", "v">>) \/ Has(c, <<"d", "1">>)
                               \/ Has(c, <<"a", "g", "e", "n", "t">>))
           InError(a) == a.status = "error"
           F == SelectSeq(autoHealBody.checks, Derives)
           E == SelectSeq(autoHealBody.agents, InError)
           ForCheck(c) ==
               IF Has(c, <<"k", "v">>) THEN [kind |-> "retry", target |-> Str_kvNamespace]
               ELSE IF Has(c, <<"d", "1">>) THEN [kind |-> "alert", target |-> Str_d1Database]
               ELSE [kind |-> "restart", target |-> SubSeq(c.name, 7, Len(c.name))]
           want == [i \in 1..(Len(F) + Len(E)) |->
                       IF i <= Len(F) THEN ForCheck(F[i])
                       ELSE [kind |-> "restart", target |-> E[i - Len(F)].name]]
           Begun(i) == [kind |-> want[i].kind, target |-> want[i].target,
                        status |-> "executing"]
       IN   /\ ((AutoHeal(autoHealBody) /\ ~circuitOpen) =>
                  IF want = <<>>
                  THEN /\ lastResponse' = [healed |-> TRUE, actionsCount |-> 0,
                                           results |-> <<>>]
                       /\ actions' = actions
                       /\ calls' = calls
                  ELSE /\ actions' = Append(actions, Begun(1))
                       /\ \E c \in calls' : c.op = "autoHeal" /\ c.results = <<>>)
            /\ (\A c \in calls : \A o \in DispatchOutcomes :
                  ExecuteReturn(c, o) =>
                      LET k == Len(c.results) + 1
                          n == Len(want)
                      IN  /\ k + Len(c.rest) = n
                          /\ actions[c.action].kind = want[k].kind
                          /\ actions[c.action].target = want[k].target
                          /\ actions'[c.action].status \in {"completed", "failed"}
                          /\ IF k < n
                             THEN /\ Len(actions') = Len(actions) + 1
                                  /\ actions'[Len(actions')] = Begun(k + 1)
                                  /\ lastResponse' = lastResponse
                             ELSE /\ Len(actions') = Len(actions)
                                  /\ lastResponse'.healed
                                  /\ lastResponse'.actionsCount = n
                                  /\ Len(lastResponse'.results) = n
                                  /\ \A i \in 1..n :
                                        LET r == lastResponse'.results[i]
                                            a == actions'[r.action]
                                        IN  /\ r.kind = want[i].kind
                                            /\ r.target = want[i].target
                                            /\ a.kind = r.kind /\ a.target = r.target
                                            /\ r.success <=> a.status = "completed"
                                            /\ \A j \in 1..(i - 1) :
                                                  lastResponse'.results[j].action < r.action)
    ]_vars

C30_Witness ==
    /\ calls = {}
    /\ Len(autoHealBody.checks) = 2
    /\ autoHealBody.checks[1] = [name |-> Str_d1Kv, status |-> "fail"]
    /\ autoHealBody.checks[2].status = "warn"
    /\ Len(autoHealBody.agents) = 1 /\ autoHealBody.agents[1].status = "error"
    /\ "results" \in DOMAIN lastResponse
    /\ lastResponse.actionsCount = 2
    /\ lastResponse.results[1].kind = "retry"
    /\ lastResponse.results[1].target = Str_kvNamespace
    /\ lastResponse.results[1].success
    /\ lastResponse.results[2].kind = "restart"
    /\ lastResponse.results[2].target = Str_taskQueue
    /\ ~lastResponse.results[2].success

(* C31: healthCheck sends its snapshot to autoHeal once, and answers only
   after autoHeal has answered, exactly when the overall status it computed
   is unhealthy (self-healing is enabled); when overall is healthy or
   degraded it answers at once and causes no HealAction, no enqueue and no
   change of an agent's status *)
C31_AutoHealOnceIffUnhealthy ==
    [][/\ (\A kv \in ProbeOutcomes : \A d1 \in ProbeOutcomes :
             LoopHealthCheckBegin(kv, d1) =>
                 /\ actions' = actions /\ calls' = calls
                 /\ tasks' = tasks /\ agents' = agents
                 /\ IF kv = "fail" \/ d1 = "fail"
                       \/ (\E n \in AgentNames : agents[n].status = "error")
                    THEN /\ Cardinality(healthCalls' \ healthCalls) = 1
                         /\ \A c \in healthCalls' \ healthCalls :
                               c.stage = "sent" /\ c.overall = "unhealthy"
                         /\ lastHealth' = lastHealth
                    ELSE /\ healthCalls' = healthCalls
                         /\ lastHealth'.status = 200
                         /\ lastHealth'.overall \in {"healthy", "degraded"})
       /\ (\A c \in healthCalls :
             LoopDeliver(c) =>
                 /\ c.stage = "sent"
                 /\ SelfHealEnabled
                 /\ \A d \in healthCalls' : d.stage # "sent")
       /\ (\A c \in healthCalls :
             (LoopHealthCheckReturn(c) /\ lastHealth'.status = 200) =>
                 /\ c.stage = "answered"
                 /\ healthCalls' = healthCalls \ {c})]_vars

C31_Witness ==
    /\ healthCalls = {}
    /\ lastHealth # NONE
    /\ lastHealth.status = 200
    /\ lastHealth.overall = "unhealthy"
    /\ coordCount.healths = 1
    /\ healCount = 1
    /\ \E i \in DOMAIN actions : actions[i].kind = "restart"

(* C32: a restart action that ends completed has added exactly one new
   pending task of type self_heal with priority 1 to the Task Scheduler and
   has set its target, a registered agent, to recovering in the registry of
   the Coordinator; so a restart on a target that is not registered does not
   end completed *)
C32_CompletedRestartDidRestart ==
    [][\A i \in DOMAIN actions :
          (/\ actions[i].kind = "restart"
           /\ actions[i].status = "executing"
           /\ actions'[i].status = "completed") =>
              /\ Len(tasks') = Len(tasks) + 1
              /\ \A j \in DOMAIN tasks : tasks'[j] = tasks[j]
              /\ tasks'[Len(tasks')].status = "pending"
              /\ tasks'[Len(tasks')].type = "self_heal"
              /\ tasks'[Len(tasks')].priority = 1
              /\ actions[i].target \in AgentNames
              /\ agents'[actions[i].target].status = "recovering"]_vars

(* C33: under enqueue, processNext, the wake-up, retryFailed and reports
   that change only the status, no task is failed with retryCount <
   maxRetries; so retryFailed finds nothing to retry (retriedCount 0) and
   changes no task and no counter *)
C33_NothingForRetryFailed ==
    /\ [](\A i \in TaskIds :
             ~(tasks[i].status = "failed" /\ tasks[i].retryCount < tasks[i].maxRetries))
    /\ [][RetryFailed => (tasks' = tasks /\ stats' = stats /\ hist' = hist)]_vars

C33_Witness ==
    /\ reports = 1
    /\ \E i \in TaskIds, j \in TaskIds :
          /\ tasks[i].status = "failed"
          /\ tasks[i].hasError
          /\ tasks[i].retryCount = tasks[i].maxRetries
          /\ tasks[j].status = "retrying"
    /\ ENABLED RetryFailed

(* C34: totalCompleted is the number of tasks whose status is completed and
   never exceeds totalEnqueued: a task is counted as completed at most once,
   also when processNext completes it and a completed report arrives for it *)
C34_CompletedCountedOnce ==
    /\ stats.totalCompleted =
          Cardinality({i \in TaskIds : tasks[i].status = "completed"})
    /\ stats.totalCompleted <= stats.totalEnqueued

(* C35: the work of a task is executed by one executor per attempt: the
   queue consumer, which runs the work of the message enqueue sent and then
   reports completed or failed, never reports on a task whose handler
   processNext or the wake-up is executing *)
C35_SingleExecutor ==
    [][\A id \in TaskIds :
          (UpdateTask(id, "completed") \/ UpdateTask(id, "failed"))
              => id \notin executing]_vars

(* C36: when some registered agent is in status error as healthCheck runs,
   its check agent-<name> fails and the overall status computed, which is the
   one returned, is unhealthy; degraded is computed only with a warning
   check and no agent in error *)
C36_ErrorAgentMeansUnhealthy ==
    [][/\ (\A kv \in ProbeOutcomes : \A d1 \in ProbeOutcomes :
             HealthCheckBegin(kv, d1) =>
                 LET new == healthCalls' \ healthCalls
                     health == IF new # {} THEN CHOOSE c \in new : TRUE ELSE lastHealth'
                 IN  /\ (\A i \in DOMAIN AgentOrder :
                           agents[AgentOrder[i]].status = "error" =>
                               /\ health.overall = "unhealthy"
                               /\ \E k \in DOMAIN health.checks :
                                     /\ health.checks[k].name =
                                           <<"a", "g", "e", "n", "t", "-">> \o AgentOrder[i]
                                     /\ health.checks[k].status = "fail")
                     /\ (health.overall = "degraded" =>
                           /\ \A n \in AgentNames : agents[n].status # "error"
                           /\ \E k \in DOMAIN health.checks :
                                 health.checks[k].status = "warn"))
       /\ (\A c \in healthCalls :
             (HealthCheckReturn(c, TRUE) /\ lastHealth' # lastHealth) =>
                 lastHealth'.overall = c.overall)]_vars

C36_Witness ==
    /\ lastHealth # NONE
    /\ lastHealth.status = 200
    /\ lastHealth.overall = "unhealthy"
    /\ \A k \in 1..3 : lastHealth.checks[k].status = "pass"
    /\ Cardinality({i \in DOMAIN lastHealth.agents :
                       lastHealth.agents[i].status = "error"}) = 1

(* C37: a health report returned by healthCheck is a consistent snapshot:
   for every agent in the returned agents list, the returned check
   agent-<name> is fail exactly when the returned status is error *)
C37_ReturnedSnapshotConsistent ==
    (lastHealth # NONE /\ lastHealth.status = 200) =>
        \A i \in DOMAIN lastHealth.agents :
            \A k \in DOMAIN lastHealth.checks :
                lastHealth.checks[k].name =
                    <<"a", "g", "e", "n", "t", "-">> \o lastHealth.agents[i].name =>
                    (lastHealth.checks[k].status = "fail"
                        <=> lastHealth.agents[i].status = "error")

(* C38: when autoHeal receives the snapshot of a healthCheck with the breaker
   closed, the actions it plans, and the results it answers with, hold exactly
   two restarts for each agent the snapshot lists in error and none for any
   other agent; each restart whose dispatch succeeds enqueues one self_heal
   task and leaves its agent recovering *)
C38_TwoRestartsPerErrorAgent ==
    [][/\ (\A h \in healthCalls :
             (LoopDeliver(h) /\ ~circuitOpen) =>
                 LET plan == IF calls' = calls THEN <<>>
                             ELSE LET c == CHOOSE c \in calls' \ calls : TRUE
                                  IN  <<actions'[c.action]>> \o c.rest
                 IN  \A i \in DOMAIN h.sent.agents :
                         Cardinality({k \in DOMAIN plan :
                                         /\ plan[k].kind = "restart"
                                         /\ plan[k].target = h.sent.agents[i].name})
                             = IF h.sent.agents[i].status = "error" THEN 2 ELSE 0)
       /\ (\A c \in calls : \A h \in healthCalls :
             (/\ c.op = "autoHeal"
              /\ c.rest = <<>>
              /\ h.stage = "delivered"
              /\ \E o \in DispatchOutcomes : LoopExecuteReturn(c, o)) =>
                 \A i \in DOMAIN h.sent.agents :
                     Cardinality({k \in DOMAIN lastResponse'.results :
                                     /\ lastResponse'.results[k].kind = "restart"
                                     /\ lastResponse'.results[k].target =
                                           h.sent.agents[i].name})
                         = IF h.sent.agents[i].status = "error" THEN 2 ELSE 0)
       /\ (\A c \in calls :
             (actions[c.action].kind = "restart" /\ LoopExecuteReturn(c, "ok")) =>
                 /\ Len(tasks') = Len(tasks) + 1
                 /\ tasks'[Len(tasks')].type = "self_heal"
                 /\ actions[c.action].target \in AgentNames =>
                        agents'[actions[c.action].target].status = "recovering")]_vars

C38_Witness ==
    \E h \in healthCalls :
        /\ h.stage = "answered"
        /\ "results" \in DOMAIN lastResponse
        /\ \E i \in DOMAIN h.sent.agents :
              /\ h.sent.agents[i].status = "error"
              /\ agents[h.sent.agents[i].name].status = "recovering"
              /\ Cardinality({k \in DOMAIN lastResponse.results :
                                 /\ lastResponse.results[k].kind = "restart"
                                 /\ lastResponse.results[k].target = h.sent.agents[i].name
                                 /\ lastResponse.results[k].success}) = 2
        /\ Cardinality({k \in DOMAIN tasks : tasks[k].type = "self_heal"}) = 2

(* C39: when a healthCheck that computed unhealthy returns after autoHeal,
   with the breaker closed, executed its actions and every restart succeeded,
   no registered agent is in error, every agent its snapshot listed in error
   is recovering, and a healthCheck run at once with passing dependency probes
   would not compute unhealthy *)
C39_HealedWhenHealthCheckReturns ==
    [][\A h \in healthCalls :
          (/\ h.stage = "answered"
           /\ h.overall = "unhealthy"
           /\ "results" \in DOMAIN lastResponse
           /\ lastResponse.healed
           /\ \A k \in DOMAIN lastResponse.results :
                 lastResponse.results[k].kind = "restart" =>
                     lastResponse.results[k].success
           /\ LoopHealthCheckReturn(h)) =>
              /\ \A n \in AgentNames : agents'[n].status # "error"
              /\ \A i \in DOMAIN h.sent.agents :
                    h.sent.agents[i].status = "error" =>
                        agents'[h.sent.agents[i].name].status = "recovering"
              /\ (Overall(CountChecks(RunHealthChecks("pass", "pass"), "fail"),
                          CountChecks(RunHealthChecks("pass", "pass"), "warn"),
                          ErrorAgents))' # "unhealthy"]_vars

(* C40: no task stays running forever: a task that is running eventually is
   completed, retrying or failed and out of the in-flight set *)
C40_RunningEventuallyEnds ==
    \A id \in 1..MaxTasks :
        (id \in TaskIds /\ tasks[id].status = "running")
            ~> (/\ id \in TaskIds
                /\ tasks[id].status \in {"completed", "retrying", "failed"}
                /\ id \notin processing)

(* what retryFailed would find to retry *)
C19_Retryable == {i \in TaskIds : tasks[i].status = "failed" /\
                                   tasks[i].retryCount < tasks[i].maxRetries}

(* C19: retryFailed moves every failed task with retryCount < maxRetries to
   retrying with retryCount one higher, adds their number to totalRetried,
   and leaves every other task and counter as it was; after it no task is
   left for a second retryFailed to retry *)
C19_RetryFailedOnce ==
    [][RetryFailed =>
          /\ Len(tasks') = Len(tasks)
          /\ \A i \in TaskIds :
                IF i \in C19_Retryable
                THEN tasks'[i] = [tasks[i] EXCEPT !.status = "retrying",
                                                  !.retryCount = tasks[i].retryCount + 1]
                ELSE tasks'[i] = tasks[i]
          /\ stats' = [stats EXCEPT !.totalRetried =
                                       stats.totalRetried + Cardinality(C19_Retryable)]
          /\ C19_Retryable' = {}
          /\ UNCHANGED <<processing, executing, alarm>>]_vars

C19_Witness ==
    /\ \E i \in TaskIds, j \in TaskIds :
          /\ tasks[i].status = "retrying"
          /\ tasks[i].retryCount = 1
          /\ hist[i] = <<"pending", "running", "failed", "retrying">>
          /\ tasks[j].status = "failed"
          /\ tasks[j].retryCount = tasks[j].maxRetries
    /\ stats.totalFailed = 2
    /\ stats.totalRetried = 1
    /\ C19_Retryable = {}

----------------------------------------------------------------------------
(* Properties of the calls between the components *)

(* C17: every request to one of the three components is eventually answered,
   the requests whose handlers call back into the component that issued them
   included, and no chain of calls grows without end: the stack of suspended
   handlers stays below MaxDepth *)
C17_EveryRequestReturns ==
    /\ (chain.stack # <<>>) ~> (chain.stack = <<>> /\ chain.answered)
    /\ [](Len(chain.stack) < MaxDepth)

C17_Witness ==
    /\ chain.stack = <<>>
    /\ chain.answered
    /\ chain.root = Some(Op(Str_taskQueue, "/process"))
    /\ chain.reentered
    /\ chain.depth = 4

====
